---- MODULE Spec2Model ----
(***************************************************************************)
(* Model of the 3D U-Net block composition of fmc/models/unet_blocks.py:   *)
(* the block factories get_down_block / get_up_block, the constructors of  *)
(* the five block variants and their forward passes.                       *)
(*                                                                         *)
(* A tensor is a record [shape, hist]: its shape and the sequence of       *)
(* operators that produced it from the caller's input.  Python objects     *)
(* are records with a "kind" field; None is the record of kind "None".     *)
(***************************************************************************)
EXTENDS Integers, Sequences, FiniteSets, TLC

VARIABLES
    req,                     \* arguments of the call in progress / last made
    block,                   \* the block instance the caller holds, or None
    error,                   \* exception raised by the last call, or "none"
    pc,                      \* position of the forward call in progress
    i,                       \* index (1-based) of the layer of the loops
    hidden_states,           \* forward: local hidden_states
    temb_repeated,           \* forward: local temb_repeated
    video_length,            \* forward: local video_length
    output_states,           \* Down forward: local output_states
    res_hidden_states_tuple, \* Up forward: local res_hidden_states_tuple
    calls,                   \* sub-operator invocations made by the forward
                             \* call, in order, each with its arguments
    cross_attention_kwargs,  \* forward: binding of cross_attention_kwargs
    motion_cross_attention_kwargs, \* forward: binding of the motion kwargs
    heap,                    \* contents of the dict objects (caller's,
                             \* default-argument and call-local ones)
    result,                  \* value returned by the last forward call
    skip_cache,              \* output sequence the caller keeps for decoding
    config,                  \* arguments block was constructed with
    kept,                    \* outcome of an earlier forward call the caller
                             \* keeps to compare a later one with
    train                    \* train_image_lora.main: its arguments and the
                             \* locals of its training loop, or None

vars == <<req, block, error, pc, i, hidden_states, temb_repeated,
          video_length, output_states, res_hidden_states_tuple, calls,
          cross_attention_kwargs, motion_cross_attention_kwargs, heap,
          result, skip_cache, config, kept, train>>

fwdLocals == <<i, hidden_states, temb_repeated, video_length, output_states,
               res_hidden_states_tuple, calls, cross_attention_kwargs,
               motion_cross_attention_kwargs>>

----------------------------------------------------------------------------
(* Bounds of the model *)

MaxLayers == 3               \* num_layers ranges over 0..MaxLayers
MaxSkip == 4                 \* longest skip sequence a caller hands over

(* Input domains *)

Channels == {64, 128, 256}
LayerCounts == 0..MaxLayers

None == [kind |-> "None"]

(* A type tag is the sequence of its tokens: "UNetResDownBlock3D" is       *)
(* <<"UNetRes", "DownBlock3D">>.                                           *)
TagNames == {"DownBlock3D", "CrossAttnDownBlock3D", "UpBlock3D",
             "CrossAttnUpBlock3D", "UnknownBlock3D"}
Tags == {<<n>> : n \in TagNames}
          \cup {<<"UNetRes", n>> : n \in TagNames}
          \cup {<<"UNetRes", "UNetRes", n>> : n \in TagNames}

(* an attribute that was never set on the instance *)
Absent == [kind |-> "absent"]

(* Python numbers that may also be None are boxed *)
Num(v) == [kind |-> "int", value |-> v]

CrossAttentionDim == 1280

----------------------------------------------------------------------------
(* Outcome of a Python call: a returned value or a raised exception *)

Return(v) == [raised |-> "none", value |-> v]
Raise(e) == [raised |-> e, value |-> None]

----------------------------------------------------------------------------
(* Sub-operators owned by a block *)

ResnetBlock2D(in_channels, out_channels) ==
    [kind |-> "ResnetBlock2D", in_channels |-> in_channels,
     out_channels |-> out_channels]

Transformer2DModel(in_channels, cross_attention_dim) ==
    [kind |-> "Transformer2DModel", in_channels |-> in_channels,
     cross_attention_dim |-> cross_attention_dim]

get_motion_module(in_channels, motion_module_type) ==
    [kind |-> "MotionModule", in_channels |-> in_channels,
     motion_module_type |-> motion_module_type]

Downsample2D(channels, out_channels) ==
    [kind |-> "Downsample2D", channels |-> channels,
     out_channels |-> out_channels]

Upsample2D(channels, out_channels) ==
    [kind |-> "Upsample2D", channels |-> channels,
     out_channels |-> out_channels]

ModuleList(modules) == [kind |-> "ModuleList", items |-> modules]

(* mutant: a motion module is built whatever use_motion_module says *)
MotionSlot_always(use_motion_module, in_channels, motion_module_type) ==
    get_motion_module(in_channels, motion_module_type)

(* motion_modules.append(get_motion_module(...) if use_motion_module else None) *)
MotionSlot(use_motion_module, in_channels, motion_module_type) ==
    IF use_motion_module
    THEN get_motion_module(in_channels, motion_module_type) ELSE None

----------------------------------------------------------------------------
(* Constructors.  a is the record of keyword arguments; layers are         *)
(* numbered 1..num_layers here, 0..num_layers-1 in the source.             *)

(* mutant: every layer is built for the block's in_channels *)
DownResnetInChannels_in(k, in_channels, out_channels) == in_channels

(* in_channels = in_channels if i == 0 else out_channels *)
DownResnetInChannels(k, in_channels, out_channels) ==
    IF k = 1 THEN in_channels ELSE out_channels

DownBlock3D_init(a) ==
    Return([kind |-> "DownBlock3D",
            resnets |-> [k \in 1..a.num_layers |->
                ResnetBlock2D(DownResnetInChannels(k, a.in_channels, a.out_channels),
                              a.out_channels)],
            attentions |-> << >>,
            motion_modules |-> [k \in 1..a.num_layers |->
                MotionSlot(a.use_motion_module, a.out_channels,
                           a.motion_module_type)],
            samplers |-> IF a.add_sample
                         THEN ModuleList(<<Downsample2D(a.out_channels, a.out_channels)>>)
                         ELSE None,
            gradient_checkpointing |-> FALSE,
            training |-> TRUE,
            lora_scale |-> Absent,
            motion_lora_scale |-> Absent])

(* mutant: the dual cross-attention flag is ignored *)
DualCrossAttentionRaises_never(num_layers, dual_cross_attention) == FALSE

(* the loop body raises in its first iteration: "if dual_cross_attention:  *)
(* raise NotImplementedError" sits inside "for i in range(num_layers)"     *)
DualCrossAttentionRaises(num_layers, dual_cross_attention) ==
    num_layers >= 1 /\ dual_cross_attention

CrossAttnDownBlock3D_init(a) ==
    IF DualCrossAttentionRaises(a.num_layers, a.dual_cross_attention)
    THEN Raise("NotImplementedError")
    ELSE Return([kind |-> "CrossAttnDownBlock3D",
            resnets |-> [k \in 1..a.num_layers |->
                ResnetBlock2D(DownResnetInChannels(k, a.in_channels, a.out_channels),
                              a.out_channels)],
            attentions |-> [k \in 1..a.num_layers |->
                Transformer2DModel(a.out_channels, a.cross_attention_dim)],
            motion_modules |-> [k \in 1..a.num_layers |->
                MotionSlot(a.use_motion_module, a.out_channels,
                           a.motion_module_type)],
            samplers |-> IF a.add_sample
                         THEN ModuleList(<<Downsample2D(a.out_channels, a.out_channels)>>)
                         ELSE None,
            gradient_checkpointing |-> FALSE,
            training |-> TRUE,
            lora_scale |-> Absent,
            motion_lora_scale |-> Absent])

(* mutant: the first layer, not the last, takes the in_channels skip *)
UpResSkipChannels_first(k, num_layers, in_channels, out_channels) ==
    IF k = 1 THEN in_channels ELSE out_channels

(* res_skip_channels = in_channels if (i == num_layers - 1) else out_channels *)
UpResSkipChannels(k, num_layers, in_channels, out_channels) ==
    IF k = num_layers THEN in_channels ELSE out_channels

(* mutant: every layer is fed prev_output_channel *)
UpResnetInChannels_prev(k, prev_output_channel, out_channels) ==
    prev_output_channel

(* resnet_in_channels = prev_output_channel if i == 0 else out_channels *)
UpResnetInChannels(k, prev_output_channel, out_channels) ==
    IF k = 1 THEN prev_output_channel ELSE out_channels

UpResnets(a) ==
    [k \in 1..a.num_layers |->
        ResnetBlock2D(
            UpResnetInChannels(k, a.prev_output_channel, a.out_channels)
              + UpResSkipChannels(k, a.num_layers, a.in_channels, a.out_channels),
            a.out_channels)]

UpBlock3D_init(a) ==
    Return([kind |-> "UpBlock3D",
            resnets |-> UpResnets(a),
            attentions |-> << >>,
            motion_modules |-> [k \in 1..a.num_layers |->
                MotionSlot(a.use_motion_module, a.out_channels,
                           a.motion_module_type)],
            samplers |-> IF a.add_sample
                         THEN ModuleList(<<Upsample2D(a.out_channels, a.out_channels)>>)
                         ELSE None,
            gradient_checkpointing |-> FALSE,
            training |-> TRUE,
            lora_scale |-> Absent,
            motion_lora_scale |-> Absent])

CrossAttnUpBlock3D_init(a) ==
    IF DualCrossAttentionRaises(a.num_layers, a.dual_cross_attention)
    THEN Raise("NotImplementedError")
    ELSE Return([kind |-> "CrossAttnUpBlock3D",
            resnets |-> UpResnets(a),
            attentions |-> [k \in 1..a.num_layers |->
                Transformer2DModel(a.out_channels, a.cross_attention_dim)],
            motion_modules |-> [k \in 1..a.num_layers |->
                MotionSlot(a.use_motion_module, a.out_channels,
                           a.motion_module_type)],
            samplers |-> IF a.add_sample
                         THEN ModuleList(<<Upsample2D(a.out_channels, a.out_channels)>>)
                         ELSE None,
            gradient_checkpointing |-> FALSE,
            training |-> TRUE,
            lora_scale |-> Absent,
            motion_lora_scale |-> Absent])

(* mutant: no spatial operator is built ahead of the layers *)
MidResnetCount_layers(num_layers) == num_layers

(* resnets = [ResnetBlock2D(...)], then resnets.append(...) once per layer *)
MidResnetCount(num_layers) == num_layers + 1

(* resnets = [resnet_0] and one (attention, motion module, resnet) per layer *)
UNetMidBlock3DCrossAttn_init(a) ==
    IF DualCrossAttentionRaises(a.num_layers, a.dual_cross_attention)
    THEN Raise("NotImplementedError")
    ELSE Return([kind |-> "UNetMidBlock3DCrossAttn",
            resnets |-> [k \in 1..MidResnetCount(a.num_layers) |->
                ResnetBlock2D(a.in_channels, a.in_channels)],
            attentions |-> [k \in 1..a.num_layers |->
                Transformer2DModel(a.in_channels, a.cross_attention_dim)],
            motion_modules |-> [k \in 1..a.num_layers |->
                MotionSlot(a.use_motion_module, a.in_channels,
                           a.motion_module_type)],
            samplers |-> None,
            gradient_checkpointing |-> FALSE,
            training |-> TRUE,
            lora_scale |-> Absent,
            motion_lora_scale |-> Absent])

----------------------------------------------------------------------------
(* Block factories *)

(* mutant: the tag is dispatched as given *)
StripPrefix_none(t) == t

(* t[7:] if t.startswith("UNetRes") else t *)
StripPrefix(t) ==
    IF Len(t) >= 1 /\ t[1] = "UNetRes" THEN Tail(t) ELSE t

(* mutant: the cross-attention variant is built without the dimension check *)
get_down_block_unchecked(a) ==
    LET down_block_type == StripPrefix(a.tag) IN
    IF down_block_type = <<"DownBlock3D">>
    THEN DownBlock3D_init(a)
    ELSE IF down_block_type = <<"CrossAttnDownBlock3D">>
    THEN CrossAttnDownBlock3D_init(a)
    ELSE Raise("ValueError")

get_down_block(a) ==
    LET down_block_type == StripPrefix(a.tag) IN
    IF down_block_type = <<"DownBlock3D">>
    THEN DownBlock3D_init(a)
    ELSE IF down_block_type = <<"CrossAttnDownBlock3D">>
    THEN IF a.cross_attention_dim = None
         THEN Raise("ValueError")
         ELSE CrossAttnDownBlock3D_init(a)
    ELSE Raise("ValueError")

(* mutant: an unknown tag falls back to the plain variant *)
get_up_block_fallback(a) ==
    LET up_block_type == StripPrefix(a.tag) IN
    IF up_block_type = <<"CrossAttnUpBlock3D">>
    THEN IF a.cross_attention_dim = None
         THEN Raise("ValueError")
         ELSE CrossAttnUpBlock3D_init(a)
    ELSE UpBlock3D_init(a)

get_up_block(a) ==
    LET up_block_type == StripPrefix(a.tag) IN
    IF up_block_type = <<"UpBlock3D">>
    THEN UpBlock3D_init(a)
    ELSE IF up_block_type = <<"CrossAttnUpBlock3D">>
    THEN IF a.cross_attention_dim = None
         THEN Raise("ValueError")
         ELSE CrossAttnUpBlock3D_init(a)
    ELSE Raise("ValueError")

----------------------------------------------------------------------------
(* Tensors and the operators the blocks apply to them.  Op(name, k) tags   *)
(* the application of operator name in layer k (0: outside the layers).    *)

Op(name, k) == [op |-> name, layer |-> k]

Tensor(shape, hist) == [kind |-> "Tensor", shape |-> shape, hist |-> hist]

(* mutant: the 2D operator is handed the 5D form *)
Flatten_skipped(x) == x

(* rearrange(x, "b c f h w -> (b f) c h w") *)
Flatten(x) ==
    Tensor(<<x.shape[1] * x.shape[3], x.shape[2], x.shape[4], x.shape[5]>>,
           Append(x.hist, Op("flatten", 0)))

(* mutant: the merged axis is left as the batch axis *)
Unflatten_merged(x, f) ==
    Tensor(<<x.shape[1], x.shape[2], 1, x.shape[3], x.shape[4]>>,
           Append(x.hist, Op("unflatten", f)))

(* rearrange(x, "(b f) c h w -> b c f h w", f=f) *)
Unflatten(x, f) ==
    Tensor(<<x.shape[1] \div f, x.shape[2], f, x.shape[3], x.shape[4]>>,
           Append(x.hist, Op("unflatten", f)))

(* repeat(temb, "b c -> (b f) c", f=f) *)
Repeat(temb, f) ==
    Tensor(<<temb.shape[1] * f, temb.shape[2]>>, Append(temb.hist, Op("repeat", f)))

(* spatial operator (x:[N,C_in,H,W], temb:[N,D]) -> [N,C_out,H,W] *)
ResnetAccepts(resnet, x, temb) ==
    /\ x.shape[2] = resnet.in_channels
    /\ temb.shape[1] = x.shape[1]

ResnetApply(resnet, x, k) ==
    Tensor(<<x.shape[1], resnet.out_channels, x.shape[3], x.shape[4]>>,
           Append(x.hist, Op("resnet", k)))

(* cross-attention operator (x:[N,C,H,W], ...) -> .sample of shape [N,C,H,W] *)
AttnAccepts(attn, x) == x.shape[2] = attn.in_channels

AttnApply(attn, x, k) == Tensor(x.shape, Append(x.hist, Op("attn", k)))

(* motion module (x:[B,C,F,H,W], ...) -> [B,C,F,H,W] *)
MotionAccepts(motion_module, x) == x.shape[2] = motion_module.in_channels

(* a motion module of type "Identity" returns its input *)
MotionApply(motion_module, x, k) ==
    IF motion_module.motion_module_type = "Identity" THEN x
    ELSE Tensor(x.shape, Append(x.hist, Op("motion", k)))

(* down resampler (x:[N,C,H,W]) -> [N,C,H/2,W/2] *)
DownsampleAccepts(downsampler, x) == x.shape[2] = downsampler.channels

DownsampleApply(downsampler, x) ==
    Tensor(<<x.shape[1], downsampler.out_channels,
             x.shape[3] \div 2, x.shape[4] \div 2>>,
           Append(x.hist, Op("downsample", 0)))

(* up resampler (x:[N,C,H,W], target_size?) -> [N,C,2H,2W] or target_size *)
UpsampleAccepts(upsampler, x) == x.shape[2] = upsampler.channels

UpsampleApply(upsampler, x, upsample_size) ==
    Tensor(<<x.shape[1], upsampler.out_channels,
             IF upsample_size = None THEN 2 * x.shape[3] ELSE upsample_size.value,
             IF upsample_size = None THEN 2 * x.shape[4] ELSE upsample_size.value>>,
           Append(x.hist, Op("upsample", 0)))

(* torch.cat([x, y], dim=1): every axis but the channel axis must agree *)
CatAccepts(x, y) ==
    /\ Len(x.shape) = Len(y.shape)
    /\ \A d \in (1..Len(x.shape)) \ {2} : x.shape[d] = y.shape[d]

(* mutant: the skip entry is not concatenated *)
Cat_skipped(x, y, k) == x

Cat(x, y, k) ==
    Tensor([x.shape EXCEPT ![2] = x.shape[2] + y.shape[2]],
           Append(x.hist, Op("cat", k)))

----------------------------------------------------------------------------
(* Keyword-argument dicts.  A dict object lives in heap under a name; a    *)
(* binding is the name of the object it refers to, or "None".              *)

EmptyDict == << >>

DictSet(d, key, v) ==
    [k \in (DOMAIN d) \cup {key} |-> IF k = key THEN v ELSE d[k]]

(* the dict a binding refers to, as the callee receives it *)
Deref(h, ref) ==
    IF ref = "None" THEN None ELSE [kind |-> "dict", items |-> h[ref]]

(* names of the default-argument dicts, created once at definition time *)
DefaultObjects == {"CrossAttnDownBlock3D.cross_attention_kwargs",
                   "CrossAttnDownBlock3D.motion_cross_attention_kwargs",
                   "DownBlock3D.motion_cross_attention_kwargs",
                   "CrossAttnUpBlock3D.motion_cross_attention_kwargs",
                   "UpBlock3D.motion_cross_attention_kwargs"}
CallerObjects == {"caller.cross_attention_kwargs",
                  "caller.motion_cross_attention_kwargs"}
LocalObjects == {"local.cross_attention_kwargs",
                 "local.motion_cross_attention_kwargs"}

(* binding of a keyword parameter: the caller's object, None when the      *)
(* caller passed None, the parameter's default when the caller omitted it  *)
Bind(arg, callerName, default) ==
    IF arg.kind = "omitted" THEN default
    ELSE IF arg.kind = "None" THEN "None"
    ELSE callerName

(* heap once the caller has created the dicts it passes *)
HeapAtCall(h, a) ==
    [o \in DOMAIN h |->
        IF o = "caller.cross_attention_kwargs" /\ a.cross_attention_kwargs.kind = "dict"
        THEN a.cross_attention_kwargs.items
        ELSE IF o = "caller.motion_cross_attention_kwargs"
                /\ a.motion_cross_attention_kwargs.kind = "dict"
        THEN a.motion_cross_attention_kwargs.items
        ELSE IF o \in DefaultObjects THEN h[o] ELSE EmptyDict]

(* mutant: a scale of 0 is taken for a missing one *)
GetAttr_truthy(v) == IF v = Absent \/ v = Num(0) THEN None ELSE v

(* getattr(self, name, None), the value the "!= None" tests look at *)
GetAttr(v) == IF v = Absent THEN None ELSE v

----------------------------------------------------------------------------
(* Adapter scale injection at the start of forward.  Each operator yields  *)
(* the new bindings of the two kwargs parameters, the heap and the         *)
(* exception raised, if any.                                               *)

Injected(ca, m, h, e) == [ca |-> ca, m |-> m, heap |-> h, raised |-> e]

(* mutant: the motion kwargs are replaced by a new dict *)
InjectMotionScale_replace(blk, m, h) ==
    LET motion_lora_scale == GetAttr(blk.motion_lora_scale) IN
    IF motion_lora_scale = None THEN [m |-> m, heap |-> h]
    ELSE [m |-> "local.motion_cross_attention_kwargs",
          heap |-> [h EXCEPT !["local.motion_cross_attention_kwargs"] =
                        DictSet(EmptyDict, "scale", motion_lora_scale.value)]]

(* if motion_lora_scale != None:                                           *)
(*     if motion_cross_attention_kwargs is None: ... = {"scale": s}        *)
(*     else: motion_cross_attention_kwargs.update({"scale": s})            *)
InjectMotionScale(blk, m, h) ==
    LET motion_lora_scale == GetAttr(blk.motion_lora_scale) IN
    IF motion_lora_scale = None THEN [m |-> m, heap |-> h]
    ELSE IF m = "None"
    THEN [m |-> "local.motion_cross_attention_kwargs",
          heap |-> [h EXCEPT !["local.motion_cross_attention_kwargs"] =
                        DictSet(EmptyDict, "scale", motion_lora_scale.value)]]
    ELSE [m |-> m,
          heap |-> [h EXCEPT ![m] = DictSet(h[m], "scale", motion_lora_scale.value)]]

(* CrossAttnDownBlock3D: cross_attention_kwargs["scale"] = lora_scale *)
InjectScaleCrossAttnDown(blk, ca, m, h) ==
    LET lora_scale == GetAttr(blk.lora_scale) IN
    IF lora_scale # None /\ ca = "None"
    THEN Injected(ca, m, h, "TypeError")
    ELSE LET h1 == IF lora_scale = None THEN h
                   ELSE [h EXCEPT ![ca] = DictSet(h[ca], "scale", lora_scale.value)]
             mo == InjectMotionScale(blk, m, h1)
         IN Injected(ca, mo.m, mo.heap, "none")

(* DownBlock3D, UpBlock3D: only the motion scale is read *)
InjectScalePlain(blk, ca, m, h) ==
    LET mo == InjectMotionScale(blk, m, h)
    IN Injected(ca, mo.m, mo.heap, "none")

(* Mid, CrossAttnUpBlock3D: cross_attention_kwargs = {"scale": lora_scale} *)
InjectScaleRebind(blk, ca, m, h) ==
    LET lora_scale == GetAttr(blk.lora_scale)
        ca1 == IF lora_scale = None THEN ca ELSE "local.cross_attention_kwargs"
        h1 == IF lora_scale = None THEN h
              ELSE [h EXCEPT !["local.cross_attention_kwargs"] =
                        DictSet(EmptyDict, "scale", lora_scale.value)]
        mo == InjectMotionScale(blk, m, h1)
    IN Injected(ca1, mo.m, mo.heap, "none")

----------------------------------------------------------------------------
(* Forward passes *)

DownKinds == {"DownBlock3D", "CrossAttnDownBlock3D"}
UpKinds == {"UpBlock3D", "CrossAttnUpBlock3D"}

Min(x, y) == IF x <= y THEN x ELSE y

(* number of iterations of "for ... in zip(self.resnets, [self.attentions,] *)
(* self.motion_modules)"                                                    *)
ZipLen(blk) ==
    IF blk.kind \in {"DownBlock3D", "UpBlock3D"}
    THEN Min(Len(blk.resnets), Len(blk.motion_modules))
    ELSE IF blk.kind = "UNetMidBlock3DCrossAttn"
    THEN Min(Len(blk.attentions),
             Min(Len(blk.resnets) - 1, Len(blk.motion_modules)))
    ELSE Min(Len(blk.resnets), Min(Len(blk.attentions), Len(blk.motion_modules)))

(* record of one sub-operator invocation in layer k: the tensor it is      *)
(* applied to, its other argument (time embedding, kwargs, skip entry or    *)
(* target size) and the hidden_states it leaves (None when it raises)       *)
Call(name, k, x, arg, out) ==
    [op |-> name, layer |-> k, x |-> x, arg |-> arg, out |-> out]

Fail(e) ==
    /\ pc' = "raised"
    /\ error' = e

(* after the spatial operator of layer k: cross-attention when the block   *)
(* has one, then the motion module when the slot is not None               *)
AfterMotionOf(kind) ==
    IF kind \in DownKinds THEN "append"
    ELSE IF kind = "UNetMidBlock3DCrossAttn" THEN "mid_resnet"
    ELSE "loop"

AfterAttn(blk, k) ==
    IF blk.motion_modules[k] # None THEN "motion" ELSE AfterMotionOf(blk.kind)

(* mutant: the cross-attention of the layer is passed over *)
AfterResnet_noAttn(blk, k) == AfterAttn(blk, k)

AfterResnet(blk, k) ==
    IF blk.kind \in {"CrossAttnDownBlock3D", "CrossAttnUpBlock3D"}
    THEN "attn" ELSE AfterAttn(blk, k)

(* DownBlock3D.forward / CrossAttnDownBlock3D.forward, up to the loop *)
DownForward(a) ==
    /\ pc = "idle"
    /\ block.kind \in DownKinds
    /\ LET h0 == HeapAtCall(heap, a)
           ca == IF block.kind = "DownBlock3D" THEN "None"
                 ELSE Bind(a.cross_attention_kwargs, "caller.cross_attention_kwargs",
                           "CrossAttnDownBlock3D.cross_attention_kwargs")
           m == Bind(a.motion_cross_attention_kwargs,
                     "caller.motion_cross_attention_kwargs",
                     IF block.kind = "DownBlock3D"
                     THEN "DownBlock3D.motion_cross_attention_kwargs"
                     ELSE "CrossAttnDownBlock3D.motion_cross_attention_kwargs")
           inj == IF block.kind = "DownBlock3D"
                  THEN InjectScalePlain(block, ca, m, h0)
                  ELSE InjectScaleCrossAttnDown(block, ca, m, h0)
       IN /\ req' = [op |-> "down_forward", args |-> a]
          /\ video_length' = a.hidden_states.shape[3]
          /\ temb_repeated' = Repeat(a.temb, a.hidden_states.shape[3])
          /\ hidden_states' = a.hidden_states
          /\ output_states' = << >>
          /\ res_hidden_states_tuple' = << >>
          /\ calls' = << >>
          /\ cross_attention_kwargs' = inj.ca
          /\ motion_cross_attention_kwargs' = inj.m
          /\ heap' = inj.heap
          /\ i' = 1
          /\ result' = None
          /\ IF inj.raised # "none"
             THEN Fail(inj.raised)
             ELSE pc' = "loop" /\ error' = "none"
    /\ UNCHANGED <<block, skip_cache, config, kept, train>>

(* mutant: the recompute flag is ignored *)
CheckpointRaises_ignored(blk) == FALSE

(* if self.training and self.gradient_checkpointing: raise NotImplementedError *)
CheckpointRaises(blk) == blk.training /\ blk.gradient_checkpointing

(* head of a Down layer: the recompute path is refused *)
DownLayer ==
    /\ pc = "loop"
    /\ req.op = "down_forward"
    /\ i <= ZipLen(block)
    /\ IF CheckpointRaises(block)
       THEN Fail("NotImplementedError")
       ELSE pc' = "resnet" /\ UNCHANGED error
    /\ UNCHANGED <<req, block, fwdLocals, heap, result, skip_cache, config, kept, train>>

(* flatten, resnet(hidden_states, temb_repeated), unflatten *)
Resnet ==
    /\ pc = "resnet"
    /\ LET x == Flatten(hidden_states)
           out == Unflatten(ResnetApply(block.resnets[i], x, i), video_length)
       IN IF ResnetAccepts(block.resnets[i], x, temb_repeated)
          THEN /\ calls' = Append(calls, Call("resnet", i, x, temb_repeated, out))
               /\ hidden_states' = out
               /\ pc' = AfterResnet(block, i)
               /\ UNCHANGED error
          ELSE /\ calls' = Append(calls, Call("resnet", i, x, temb_repeated, None))
               /\ Fail("RuntimeError")
               /\ UNCHANGED hidden_states
    /\ i' = IF pc' = "loop" THEN i + 1 ELSE i
    /\ UNCHANGED <<req, block, temb_repeated, video_length, output_states,
                   res_hidden_states_tuple, cross_attention_kwargs,
                   motion_cross_attention_kwargs, heap, result, skip_cache, config, kept, train>>

(* flatten, attn(hidden_states, encoder_hidden_states=...,                 *)
(* cross_attention_kwargs=cross_attention_kwargs).sample, unflatten        *)
Attn ==
    /\ pc = "attn"
    /\ LET x == Flatten(hidden_states)
           kw == Deref(heap, cross_attention_kwargs)
           out == Unflatten(AttnApply(block.attentions[i], x, i), video_length)
       IN IF AttnAccepts(block.attentions[i], x)
          THEN /\ calls' = Append(calls, Call("attn", i, x, kw, out))
               /\ hidden_states' = out
               /\ pc' = AfterAttn(block, i)
               /\ UNCHANGED error
          ELSE /\ calls' = Append(calls, Call("attn", i, x, kw, None))
               /\ Fail("RuntimeError")
               /\ UNCHANGED hidden_states
    /\ i' = IF pc' = "loop" THEN i + 1 ELSE i
    /\ UNCHANGED <<req, block, temb_repeated, video_length, output_states,
                   res_hidden_states_tuple, cross_attention_kwargs,
                   motion_cross_attention_kwargs, heap, result, skip_cache, config, kept, train>>

(* if motion_module is not None: hidden_states = motion_module(...) *)
Motion ==
    /\ pc = "motion"
    /\ LET kw == Deref(heap, motion_cross_attention_kwargs)
           out == MotionApply(block.motion_modules[i], hidden_states, i)
       IN IF MotionAccepts(block.motion_modules[i], hidden_states)
          THEN /\ calls' = Append(calls, Call("motion", i, hidden_states, kw, out))
               /\ hidden_states' = out
               /\ pc' = AfterMotionOf(block.kind)
               /\ UNCHANGED error
          ELSE /\ calls' = Append(calls, Call("motion", i, hidden_states, kw, None))
               /\ Fail("RuntimeError")
               /\ UNCHANGED hidden_states
    /\ i' = IF pc' = "loop" THEN i + 1 ELSE i
    /\ UNCHANGED <<req, block, temb_repeated, video_length, output_states,
                   res_hidden_states_tuple, cross_attention_kwargs,
                   motion_cross_attention_kwargs, heap, result, skip_cache, config, kept, train>>

(* mutant: the layer's output is put in front of the earlier ones *)
AppendLayerOutput_front(out, x) == <<x>> \o out

(* output_states += (hidden_states,) *)
AppendLayerOutput(out, x) == Append(out, x)

(* end of a Down layer: its output joins the output sequence *)
DownAppend ==
    /\ pc = "append"
    /\ output_states' = AppendLayerOutput(output_states, hidden_states)
    /\ i' = i + 1
    /\ pc' = "loop"
    /\ UNCHANGED <<req, block, error, hidden_states, temb_repeated, video_length,
                   res_hidden_states_tuple, calls, cross_attention_kwargs,
                   motion_cross_attention_kwargs, heap, result, skip_cache, config, kept, train>>

(* mutant: the resampled output is not appended *)
AppendResampled_dropped(out, x) == out

(* output_states += (hidden_states,) after the downsamplers *)
AppendResampled(out, x) == Append(out, x)

(* if self.downsamplers is not None: flatten, downsampler, unflatten for   *)
(* each downsampler, then one more append                                  *)
Downsample ==
    /\ pc = "loop"
    /\ req.op = "down_forward"
    /\ i > ZipLen(block)
    /\ block.samplers # None
    /\ LET x == Flatten(hidden_states)
           out == Unflatten(DownsampleApply(block.samplers.items[1], x),
                            video_length)
       IN IF DownsampleAccepts(block.samplers.items[1], x)
          THEN /\ calls' = Append(calls, Call("downsample", 0, x, None, out))
               /\ hidden_states' = out
               /\ output_states' = AppendResampled(output_states, out)
               /\ pc' = "return"
               /\ UNCHANGED error
          ELSE /\ calls' = Append(calls, Call("downsample", 0, x, None, None))
               /\ Fail("RuntimeError")
               /\ UNCHANGED <<hidden_states, output_states>>
    /\ UNCHANGED <<req, block, i, temb_repeated, video_length,
                   res_hidden_states_tuple, cross_attention_kwargs,
                   motion_cross_attention_kwargs, heap, result, skip_cache, config, kept, train>>

(* return hidden_states, output_states *)
DownReturn ==
    /\ pc \in {"return", "loop"}
    /\ req.op = "down_forward"
    /\ \/ pc = "return"
       \/ pc = "loop" /\ i > ZipLen(block) /\ block.samplers = None
    /\ result' = [kind |-> "tuple", hidden_states |-> hidden_states,
                  output_states |-> output_states]
    /\ pc' = "done"
    /\ UNCHANGED <<req, block, error, fwdLocals, heap, skip_cache, config, kept, train>>

(* UpBlock3D.forward / CrossAttnUpBlock3D.forward, up to the loop *)
UpForward(a) ==
    /\ pc = "idle"
    /\ block.kind \in UpKinds
    /\ LET h0 == HeapAtCall(heap, a)
           ca == IF block.kind = "UpBlock3D" THEN "None"
                 ELSE Bind(a.cross_attention_kwargs, "caller.cross_attention_kwargs",
                           "None")
           m == Bind(a.motion_cross_attention_kwargs,
                     "caller.motion_cross_attention_kwargs",
                     IF block.kind = "UpBlock3D"
                     THEN "UpBlock3D.motion_cross_attention_kwargs"
                     ELSE "CrossAttnUpBlock3D.motion_cross_attention_kwargs")
           inj == IF block.kind = "UpBlock3D"
                  THEN InjectScalePlain(block, ca, m, h0)
                  ELSE InjectScaleRebind(block, ca, m, h0)
       IN /\ req' = [op |-> "up_forward", args |-> a]
          /\ video_length' = a.hidden_states.shape[3]
          /\ temb_repeated' = Repeat(a.temb, a.hidden_states.shape[3])
          /\ hidden_states' = a.hidden_states
          /\ output_states' = << >>
          /\ res_hidden_states_tuple' = a.res_hidden_states_tuple
          /\ calls' = << >>
          /\ cross_attention_kwargs' = inj.ca
          /\ motion_cross_attention_kwargs' = inj.m
          /\ heap' = inj.heap
          /\ i' = 1
          /\ result' = None
          /\ pc' = "loop"
          /\ error' = "none"
    /\ UNCHANGED <<block, skip_cache, config, kept, train>>

(* mutant: the skip entry is taken from the head of the sequence *)
PopIndex_head(t) == 1

(* res_hidden_states_tuple[-1]: position (1-based) of the entry read *)
PopIndex(t) == Len(t)

(* mutant: the entry read is left in the sequence *)
PopRest_kept(t) == t

(* res_hidden_states_tuple[:-1] *)
PopRest(t) == SubSeq(t, 1, Len(t) - 1)

(* mutant: indexing the empty tuple fails like a tensor operation *)
TupleIndexError_shape == "RuntimeError"

(* res_hidden_states_tuple[-1] on an empty tuple raises IndexError *)
TupleIndexError == "IndexError"

(* head of an Up layer: pop the last skip entry, concatenate it along the  *)
(* channel axis, then refuse the recompute path                            *)
UpLayer ==
    /\ pc = "loop"
    /\ req.op = "up_forward"
    /\ i <= ZipLen(block)
    /\ IF Len(res_hidden_states_tuple) = 0
       THEN /\ Fail(TupleIndexError)
            /\ UNCHANGED <<res_hidden_states_tuple, hidden_states, calls>>
       ELSE LET res_hidden_states ==
                    res_hidden_states_tuple[PopIndex(res_hidden_states_tuple)]
                out == Cat(hidden_states, res_hidden_states, i)
            IN /\ res_hidden_states_tuple' = PopRest(res_hidden_states_tuple)
               /\ IF ~CatAccepts(hidden_states, res_hidden_states)
                  THEN /\ calls' = Append(calls, Call("cat", i, hidden_states,
                                                      res_hidden_states, None))
                       /\ Fail("RuntimeError")
                       /\ UNCHANGED hidden_states
                  ELSE /\ calls' = Append(calls, Call("cat", i, hidden_states,
                                                      res_hidden_states, out))
                       /\ hidden_states' = out
                       /\ IF CheckpointRaises(block)
                          THEN Fail("NotImplementedError")
                          ELSE pc' = "resnet" /\ UNCHANGED error
    /\ UNCHANGED <<req, block, i, temb_repeated, video_length, output_states,
                   cross_attention_kwargs, motion_cross_attention_kwargs, heap,
                   result, skip_cache, config, kept, train>>

(* if self.upsamplers is not None: flatten, upsampler(hidden_states,       *)
(* upsample_size), unflatten for each upsampler                            *)
Upsample ==
    /\ pc = "loop"
    /\ req.op = "up_forward"
    /\ i > ZipLen(block)
    /\ block.samplers # None
    /\ LET x == Flatten(hidden_states)
           upsample_size == req.args.upsample_size
           out == Unflatten(UpsampleApply(block.samplers.items[1], x, upsample_size),
                            video_length)
       IN IF UpsampleAccepts(block.samplers.items[1], x)
          THEN /\ calls' = Append(calls, Call("upsample", 0, x, upsample_size, out))
               /\ hidden_states' = out
               /\ pc' = "return"
               /\ UNCHANGED error
          ELSE /\ calls' = Append(calls, Call("upsample", 0, x, upsample_size, None))
               /\ Fail("RuntimeError")
               /\ UNCHANGED hidden_states
    /\ UNCHANGED <<req, block, i, temb_repeated, video_length, output_states,
                   res_hidden_states_tuple, cross_attention_kwargs,
                   motion_cross_attention_kwargs, heap, result, skip_cache, config, kept, train>>

(* return hidden_states *)
UpReturn ==
    /\ pc \in {"return", "loop"}
    /\ req.op = "up_forward"
    /\ \/ pc = "return"
       \/ pc = "loop" /\ i > ZipLen(block) /\ block.samplers = None
    /\ result' = hidden_states
    /\ pc' = "done"
    /\ UNCHANGED <<req, block, error, fwdLocals, heap, skip_cache, config, kept, train>>

(* UNetMidBlock3DCrossAttn.forward up to the loop: resnets[0] between a    *)
(* flatten and an unflatten, then the scale injection                      *)
MidForward(a) ==
    /\ pc = "idle"
    /\ block.kind = "UNetMidBlock3DCrossAttn"
    /\ LET h0 == HeapAtCall(heap, a)
           f == a.hidden_states.shape[3]
           t == Repeat(a.temb, f)
           x == Flatten(a.hidden_states)
           out == Unflatten(ResnetApply(block.resnets[1], x, 0), f)
           ca == Bind(a.cross_attention_kwargs, "caller.cross_attention_kwargs",
                      "None")
           m == Bind(a.motion_cross_attention_kwargs,
                     "caller.motion_cross_attention_kwargs", "None")
           inj == InjectScaleRebind(block, ca, m, h0)
       IN /\ req' = [op |-> "mid_forward", args |-> a]
          /\ video_length' = f
          /\ temb_repeated' = t
          /\ output_states' = << >>
          /\ res_hidden_states_tuple' = << >>
          /\ i' = 1
          /\ result' = None
          /\ IF ResnetAccepts(block.resnets[1], x, t)
             THEN /\ calls' = <<Call("resnet", 0, x, t, out)>>
                  /\ hidden_states' = out
                  /\ cross_attention_kwargs' = inj.ca
                  /\ motion_cross_attention_kwargs' = inj.m
                  /\ heap' = inj.heap
                  /\ pc' = IF ZipLen(block) >= 1 THEN "attn" ELSE "return"
                  /\ error' = "none"
             ELSE /\ calls' = <<Call("resnet", 0, x, t, None)>>
                  /\ hidden_states' = a.hidden_states
                  /\ cross_attention_kwargs' = ca
                  /\ motion_cross_attention_kwargs' = m
                  /\ heap' = h0
                  /\ Fail("RuntimeError")
    /\ UNCHANGED <<block, skip_cache, config, kept, train>>

(* end of a Mid layer: flatten, resnets[1:][i](hidden_states,              *)
(* temb_repeated), unflatten                                               *)
MidResnet ==
    /\ pc = "mid_resnet"
    /\ LET x == Flatten(hidden_states)
           resnet == block.resnets[i + 1]
           out == Unflatten(ResnetApply(resnet, x, i), video_length)
       IN IF ResnetAccepts(resnet, x, temb_repeated)
          THEN /\ calls' = Append(calls, Call("resnet", i, x, temb_repeated, out))
               /\ hidden_states' = out
               /\ i' = i + 1
               /\ pc' = IF i + 1 <= ZipLen(block) THEN "attn" ELSE "return"
               /\ UNCHANGED error
          ELSE /\ calls' = Append(calls, Call("resnet", i, x, temb_repeated, None))
               /\ Fail("RuntimeError")
               /\ UNCHANGED <<hidden_states, i>>
    /\ UNCHANGED <<req, block, temb_repeated, video_length, output_states,
                   res_hidden_states_tuple, cross_attention_kwargs,
                   motion_cross_attention_kwargs, heap, result, skip_cache, config, kept, train>>

(* return hidden_states *)
MidReturn ==
    /\ pc = "return"
    /\ req.op = "mid_forward"
    /\ result' = hidden_states
    /\ pc' = "done"
    /\ UNCHANGED <<req, block, error, fwdLocals, heap, skip_cache, config, kept, train>>

----------------------------------------------------------------------------
(* The caller: it builds a block through a factory or the Mid constructor, *)
(* sets the module's mode and flags, calls forward and takes the outcome.  *)

NoReq == [op |-> "none"]

(* the skip connections the caller keeps: the output sequence of the last  *)
(* Down forward call and the configuration of the block that produced it   *)
Kept(entries, cfg) == [entries |-> entries, producer |-> cfg]
NoSkip == Kept(<< >>, None)
NoKept == [op |-> "none"]
NoTensor == Tensor(<< >>, << >>)

ResetLocals ==
    /\ i' = 0
    /\ hidden_states' = NoTensor
    /\ temb_repeated' = NoTensor
    /\ video_length' = 0
    /\ output_states' = << >>
    /\ res_hidden_states_tuple' = << >>
    /\ calls' = << >>
    /\ cross_attention_kwargs' = "None"
    /\ motion_cross_attention_kwargs' = "None"

(* the caller holds no block and no call is in progress *)
CanConstruct ==
    /\ pc = "idle"
    /\ req = NoReq
    /\ block = None

Construct(op, a, outcome) ==
    /\ CanConstruct
    /\ req' = [op |-> op, args |-> a]
    /\ block' = outcome.value
    /\ config' = IF outcome.raised = "none" THEN a ELSE None
    /\ error' = outcome.raised
    /\ pc' = "built"
    /\ UNCHANGED <<fwdLocals, heap, result, skip_cache, kept, train>>

GetDownBlock(a) == Construct("get_down_block", a, get_down_block(a))

GetUpBlock(a) == Construct("get_up_block", a, get_up_block(a))

MidBlockInit(a) ==
    Construct("UNetMidBlock3DCrossAttn", a, UNetMidBlock3DCrossAttn_init(a))

(* the caller takes the outcome of the call; the output sequence of a Down *)
(* block becomes the skip connections kept for the decoder                 *)
Collect ==
    /\ pc \in {"built", "done", "raised"}
    /\ pc' = "idle"
    /\ req' = NoReq
    /\ error' = "none"
    /\ result' = None
    /\ skip_cache' = IF pc = "done" /\ req.op = "down_forward"
                     THEN Kept(result.output_states, config)
                     ELSE IF req.op = "up_forward" THEN NoSkip
                     ELSE skip_cache
    /\ heap' = [o \in DOMAIN heap |-> IF o \in DefaultObjects THEN heap[o]
                                     ELSE EmptyDict]
    /\ ResetLocals
    /\ UNCHANGED <<block, config, kept, train>>

(* the caller lets go of the block *)
Drop ==
    /\ pc = "idle"
    /\ block # None
    /\ block' = None
    /\ config' = None
    /\ UNCHANGED <<req, error, pc, fwdLocals, heap, result, skip_cache, kept, train>>

(* module.train() / module.eval() *)
SetTraining(b) ==
    /\ pc = "idle"
    /\ block # None
    /\ block.training # b
    /\ block' = [block EXCEPT !.training = b]
    /\ UNCHANGED <<req, error, pc, fwdLocals, heap, result, skip_cache, config, kept, train>>

(* the enclosing model switches self.gradient_checkpointing *)
SetGradientCheckpointing(b) ==
    /\ pc = "idle"
    /\ block # None
    /\ block.gradient_checkpointing # b
    /\ block' = [block EXCEPT !.gradient_checkpointing = b]
    /\ UNCHANGED <<req, error, pc, fwdLocals, heap, result, skip_cache, config, kept, train>>

(* the adapter controller sets, changes or removes self.lora_scale *)
SetLoraScale(v) ==
    /\ pc = "idle"
    /\ block # None
    /\ block.lora_scale # v
    /\ block' = [block EXCEPT !.lora_scale = v]
    /\ UNCHANGED <<req, error, pc, fwdLocals, heap, result, skip_cache, config, kept, train>>

(* the adapter controller sets, changes or removes self.motion_lora_scale *)
SetMotionLoraScale(v) ==
    /\ pc = "idle"
    /\ block # None
    /\ block.motion_lora_scale # v
    /\ block' = [block EXCEPT !.motion_lora_scale = v]
    /\ UNCHANGED <<req, error, pc, fwdLocals, heap, result, skip_cache, config, kept, train>>

(* the caller keeps the outcome of the forward call that ended, with the   *)
(* arguments of the call and of the block's construction                   *)
Keep ==
    /\ pc \in {"done", "raised"}
    /\ req.op \in {"down_forward", "mid_forward", "up_forward"}
    /\ kept' = [op |-> req.op, args |-> req.args, config |-> config,
                result |-> result, error |-> error]
    /\ kept # kept'
    /\ UNCHANGED <<req, block, error, pc, fwdLocals, heap, result, skip_cache,
                   config, train>>

Init ==
    /\ req = NoReq
    /\ block = None
    /\ config = None
    /\ error = "none"
    /\ pc = "idle"
    /\ i = 0
    /\ hidden_states = NoTensor
    /\ temb_repeated = NoTensor
    /\ video_length = 0
    /\ output_states = << >>
    /\ res_hidden_states_tuple = << >>
    /\ calls = << >>
    /\ cross_attention_kwargs = "None"
    /\ motion_cross_attention_kwargs = "None"
    /\ heap = [o \in DefaultObjects \cup CallerObjects \cup LocalObjects |-> EmptyDict]
    /\ result = None
    /\ skip_cache = NoSkip
    /\ kept = NoKept
    /\ train = None

----------------------------------------------------------------------------
(* Inputs of the calls *)

Omitted == [kind |-> "omitted"]
Dict(d) == [kind |-> "dict", items |-> d]

BuildArgs(tags, chans, dims, duals) ==
    [tag : tags, num_layers : LayerCounts,
     in_channels : chans, out_channels : chans, prev_output_channel : chans,
     add_sample : BOOLEAN, cross_attention_dim : dims,
     dual_cross_attention : duals, use_motion_module : BOOLEAN,
     motion_module_type : {"Vanilla"}]

(* every tag and every hyperparameter combination *)
AllBuildArgs ==
    BuildArgs(Tags, Channels, {None, Num(CrossAttentionDim)}, BOOLEAN)

MidArgs ==
    [num_layers : LayerCounts, in_channels : Channels,
     cross_attention_dim : {Num(CrossAttentionDim)},
     dual_cross_attention : BOOLEAN, use_motion_module : BOOLEAN,
     motion_module_type : {"Vanilla"}]

(* the well-configured blocks whose forward passes are explored *)
ForwardChannels == {<<64, 128, 256>>, <<128, 128, 256>>}

ForwardBuildArgs(names) ==
    {[tag |-> <<n>>, num_layers |-> l,
      in_channels |-> c[1], out_channels |-> c[2], prev_output_channel |-> c[3],
      add_sample |-> s, cross_attention_dim |-> Num(CrossAttentionDim),
      dual_cross_attention |-> FALSE, use_motion_module |-> m,
      motion_module_type |-> "Vanilla"] :
        n \in names, l \in LayerCounts, c \in ForwardChannels,
        s \in BOOLEAN, m \in BOOLEAN}

Frames == 2
Height == 4
TembDim == 16

Input(c, h) == Tensor(<<1, c, Frames, h, h>>, <<Op("input", 0)>>)
Temb == Tensor(<<1, TembDim>>, <<Op("temb", 0)>>)

DownForwardArgs ==
    [hidden_states : {Input(c, Height) : c \in {64, 128}},
     temb : {Temb},
     cross_attention_kwargs : {Omitted},
     motion_cross_attention_kwargs : {Omitted}]

(* a skip sequence of n entries made by the caller for a block built with  *)
(* cfg: the entry at position p is labelled p and has the channel count    *)
(* the layer that would pop it concatenates                                *)
SkipEntry(p, c) == Tensor(<<1, c, Frames, Height, Height>>, <<Op("skip", p)>>)

CallerSkip(cfg, n) ==
    [p \in 1..n |->
        SkipEntry(p, UpResSkipChannels(n - p + 1, cfg.num_layers,
                                       cfg.in_channels, cfg.out_channels))]

(* the caller feeds the skip connections it kept, else a sequence it made *)
SkipInputs ==
    IF skip_cache.entries # << >> THEN {skip_cache.entries}
    ELSE {CallerSkip(config, n) : n \in 0..MaxSkip}

UpForwardArgs ==
    [hidden_states : {Input(256, h) : h \in {Height \div 2, Height}},
     res_hidden_states_tuple : SkipInputs,
     temb : {Temb},
     upsample_size : {None, Num(2 * Height + 1)},
     cross_attention_kwargs : {Omitted},
     motion_cross_attention_kwargs : {Omitted}]

----------------------------------------------------------------------------
(* Specifications *)

(* construction only: every tag and hyperparameter combination *)
NextBuild ==
    \/ CanConstruct /\ \E a \in AllBuildArgs : GetDownBlock(a)
    \/ CanConstruct /\ \E a \in AllBuildArgs : GetUpBlock(a)
    \/ CanConstruct /\ \E a \in MidArgs : MidBlockInit(a)
    \/ Collect
    \/ Drop

SpecBuild == Init /\ [][NextBuild]_vars

(* forward passes of the Down and Up blocks *)
Next ==
    \/ CanConstruct /\ \E a \in ForwardBuildArgs(DownKinds) : GetDownBlock(a)
    \/ CanConstruct /\ \E a \in ForwardBuildArgs(UpKinds) : GetUpBlock(a)
    \/ \E b \in BOOLEAN : SetTraining(b)
    \/ \E b \in BOOLEAN : SetGradientCheckpointing(b)
    \/ pc = "idle" /\ block.kind \in DownKinds
          /\ \E a \in DownForwardArgs : DownForward(a)
    \/ DownLayer
    \/ Resnet
    \/ Attn
    \/ Motion
    \/ DownAppend
    \/ Downsample
    \/ DownReturn
    \/ pc = "idle" /\ block.kind \in UpKinds
          /\ \E a \in UpForwardArgs : UpForward(a)
    \/ UpLayer
    \/ Upsample
    \/ UpReturn
    \/ Collect
    \/ Drop

Spec == Init /\ [][Next]_vars

----------------------------------------------------------------------------
(* Properties *)

DownDone == pc = "done" /\ req.op = "down_forward"
UpDone == pc = "done" /\ req.op = "up_forward"
Built(op) == pc = "built" /\ req.op = op
InForward == req.op \in {"down_forward", "mid_forward", "up_forward"}

(* positions in the call log of the invocations of one sub-operator *)
CallsOf(name) == {j \in 1..Len(calls) : calls[j].op = name}

(* the last sub-operator invocation of layer k in the call log *)
LastCallOfLayer(k) ==
    calls[CHOOSE j \in 1..Len(calls) :
            /\ calls[j].layer = k
            /\ \A j2 \in (j + 1)..Len(calls) : calls[j2].layer # k]

(* C1: a Down block forward call (both variants, every layer count L >= 0) *)
(* returns an output sequence of L+1 entries when the block was built with *)
(* resampling and of L entries when it was built without.                  *)
C1_OutputCount ==
    DownDone =>
        Len(result.output_states)
            = config.num_layers + (IF config.add_sample THEN 1 ELSE 0)

C1_Witness ==
    /\ DownDone
    /\ block.kind = "CrossAttnDownBlock3D"
    /\ config.num_layers = 2
    /\ config.add_sample
    /\ Len(result.output_states) = 3

(* C2: in the output sequence of a Down forward call, entry k is the       *)
(* hidden_states left by the last sub-operator of layer k (motion module   *)
(* when the slot is filled, else cross-attention, else the spatial         *)
(* operator), in layer order; the resampled output is appended once, last, *)
(* and is the returned final hidden_states.                                *)
C2_OutputOrder ==
    DownDone =>
        LET L == config.num_layers
            out == result.output_states
        IN /\ \A k \in 1..L :
                /\ out[k] = LastCallOfLayer(k).out
                /\ LastCallOfLayer(k).op =
                     IF block.motion_modules[k] # None THEN "motion"
                     ELSE IF block.kind = "CrossAttnDownBlock3D" THEN "attn"
                     ELSE "resnet"
           /\ config.add_sample =>
                /\ Len(out) = L + 1
                /\ calls[Len(calls)].op = "downsample"
                /\ out[L + 1] = calls[Len(calls)].out
                /\ out[L + 1] = result.hidden_states
                /\ Cardinality({j \in 1..Len(out) : out[j] = out[L + 1]}) = 1
           /\ ~config.add_sample =>
                /\ Len(out) = L
                /\ L >= 1 => out[L] = result.hidden_states

C2_Witness ==
    /\ DownDone
    /\ config.num_layers = 3
    /\ config.add_sample
    /\ config.use_motion_module
    /\ result.output_states[4] = result.hidden_states
    /\ result.output_states[1] # result.output_states[2]

(* C3: an Up forward call given n skip entries reads, in layer i (0-based),*)
(* the entry at position n-1-i (0-based): from the tail, in reverse        *)
(* production order, each entry at most once, the unread entries being the *)
(* first ones of the sequence.                                             *)
C3_ReverseConsumption ==
    req.op = "up_forward" =>
        LET given == req.args.res_hidden_states_tuple
            n == Len(given)
            cats == {j \in 1..Len(calls) : calls[j].op = "cat"}
        IN /\ \A j \in cats : calls[j].arg = given[(n - 1 - (calls[j].layer - 1)) + 1]
           /\ \A j1, j2 \in cats : j1 < j2 => calls[j1].layer < calls[j2].layer
           /\ \A j1, j2 \in cats : j1 # j2 => calls[j1].arg # calls[j2].arg
           /\ res_hidden_states_tuple = SubSeq(given, 1, n - Cardinality(cats))

C3_Witness ==
    /\ UpDone
    /\ config.num_layers = 3
    /\ Len(req.args.res_hidden_states_tuple) = 4
    /\ Cardinality({j \in 1..Len(calls) : calls[j].op = "cat"}) = 3
    /\ res_hidden_states_tuple = <<req.args.res_hidden_states_tuple[1]>>

(* the caller feeds the output sequence of a Down block built with         *)
(* resampling to an Up block built with the same layer count               *)
PairedFeed ==
    /\ req.op = "up_forward"
    /\ skip_cache.producer # None
    /\ skip_cache.producer.add_sample
    /\ skip_cache.producer.num_layers = config.num_layers
    /\ req.args.res_hidden_states_tuple = skip_cache.entries
    /\ Len(skip_cache.entries) = config.num_layers + 1

(* C4 as stated: after the paired Up forward call no entry of the Down     *)
(* block's output sequence remains unconsumed.                             *)
C4_Original ==
    (UpDone /\ PairedFeed) => Len(res_hidden_states_tuple) = 0

(* C4: an Up block with L layers pops exactly L entries, so when the       *)
(* L+1 entries of the paired Down block are fed to it and the call         *)
(* returns, exactly one entry, the first produced, remains unconsumed.     *)
C4_OneEntryRemains ==
    /\ (UpDone /\ PairedFeed) =>
            res_hidden_states_tuple = <<skip_cache.entries[1]>>
    /\ UpDone =>
            Len(res_hidden_states_tuple)
                = Len(req.args.res_hidden_states_tuple) - config.num_layers

C4_Witness ==
    /\ UpDone
    /\ PairedFeed
    /\ config.num_layers = 1
    /\ Len(res_hidden_states_tuple) = 1
    /\ \E j \in 1..Len(calls) :
            calls[j].op = "cat" /\ calls[j].arg = skip_cache.entries[2]

(* C5: in both Up variants, for every layer count L >= 1, the spatial      *)
(* operator of layer i (0-based) accepts (prev_output_channel if i = 0     *)
(* else out_channels) + (in_channels if i = L-1 else out_channels) input   *)
(* channels and outputs out_channels.                                      *)
C5_UpChannels ==
    (Built("get_up_block") /\ error = "none") =>
        LET a == req.args
            L == a.num_layers
        IN /\ Len(block.resnets) = L
           /\ \A l \in 0..(L - 1) :
                /\ block.resnets[l + 1].in_channels =
                       (IF l = 0 THEN a.prev_output_channel ELSE a.out_channels)
                     + (IF l = L - 1 THEN a.in_channels ELSE a.out_channels)
                /\ block.resnets[l + 1].out_channels = a.out_channels
           /\ L = 1 => block.resnets[1].in_channels
                          = a.prev_output_channel + a.in_channels

C5_Witness ==
    /\ Built("get_up_block")
    /\ block.kind = "CrossAttnUpBlock3D"
    /\ req.args.num_layers = 2
    /\ req.args.in_channels = 256
    /\ req.args.out_channels = 64
    /\ req.args.prev_output_channel = 128
    /\ block.resnets[1].in_channels = 128 + 64
    /\ block.resnets[2].in_channels = 64 + 256

(* the Up block of the channel arithmetic example *)
C6_Example ==
    /\ Built("get_up_block")
    /\ error = "none"
    /\ req.args.in_channels = 64
    /\ req.args.out_channels = 128
    /\ req.args.prev_output_channel = 256
    /\ req.args.num_layers = 3

(* C6 as stated: the three spatial operators of the example accept 256+64, *)
(* 128+128 and 128+64 input channels.                                      *)
C6_Original ==
    C6_Example =>
        [l \in 1..3 |-> block.resnets[l].in_channels]
            = <<256 + 64, 128 + 128, 128 + 64>>

(* C6: the three spatial operators of the example accept 256+128, 128+128  *)
(* and 128+64 input channels: only the last layer's skip has in_channels.  *)
C6_ExampleChannels ==
    C6_Example =>
        [l \in 1..3 |-> block.resnets[l].in_channels]
            = <<256 + 128, 128 + 128, 128 + 64>>

C6_Witness ==
    /\ C6_Example
    /\ block.kind = "UpBlock3D"
    /\ block.resnets[1].in_channels = 384

RecognisedDown == {<<"DownBlock3D">>, <<"UNetRes", "DownBlock3D">>,
                   <<"CrossAttnDownBlock3D">>, <<"UNetRes", "CrossAttnDownBlock3D">>}
RecognisedUp == {<<"UpBlock3D">>, <<"UNetRes", "UpBlock3D">>,
                 <<"CrossAttnUpBlock3D">>, <<"UNetRes", "CrossAttnUpBlock3D">>}
CrossAttnTags == {<<"CrossAttnDownBlock3D">>, <<"UNetRes", "CrossAttnDownBlock3D">>,
                  <<"CrossAttnUpBlock3D">>, <<"UNetRes", "CrossAttnUpBlock3D">>}

(* C7: a factory call with a cross-attention tag (with or without the      *)
(* prefix) and cross_attention_dim = None raises the configuration error   *)
(* and builds no block; the plain variants build without the dimension.    *)
C7_MissingCrossAttentionDim ==
    \A f \in {[op |-> "get_down_block", tags |-> RecognisedDown],
              [op |-> "get_up_block", tags |-> RecognisedUp]} :
        (Built(f.op) /\ req.args.tag \in f.tags
                     /\ req.args.cross_attention_dim = None) =>
            IF req.args.tag \in CrossAttnTags
            THEN error = "ValueError" /\ block = None
            ELSE /\ error = "none"
                 /\ block.kind = req.args.tag[Len(req.args.tag)]
                 /\ block.attentions = << >>

C7_Witness ==
    /\ Built("get_down_block")
    /\ req.args.tag = <<"UNetRes", "CrossAttnDownBlock3D">>
    /\ req.args.cross_attention_dim = None
    /\ req.args.num_layers = 2
    /\ error = "ValueError"

(* C8: a factory call with a tag that is not one of its two variants       *)
(* (after one prefix is stripped) raises the configuration error and       *)
(* returns no block, whatever the other hyperparameters are.               *)
C8_UnknownTag ==
    /\ (Built("get_down_block") /\ req.args.tag \notin RecognisedDown) =>
            error = "ValueError" /\ block = None
    /\ (Built("get_up_block") /\ req.args.tag \notin RecognisedUp) =>
            error = "ValueError" /\ block = None

C8_Witness ==
    /\ Built("get_up_block")
    /\ req.args.tag = <<"UnknownBlock3D">>
    /\ req.args.cross_attention_dim = None
    /\ req.args.dual_cross_attention
    /\ error = "ValueError"
    /\ block = None

(* a construction call that selects dual cross-attention on a recognised   *)
(* block type                                                              *)
DualRequested ==
    /\ pc = "built"
    /\ req.args.dual_cross_attention
    /\ \/ req.op = "get_down_block" /\ req.args.tag \in RecognisedDown
       \/ req.op = "get_up_block" /\ req.args.tag \in RecognisedUp
       \/ req.op = "UNetMidBlock3DCrossAttn"

(* C9 as stated: every such call, for every layer count, raises the        *)
(* unimplemented-feature error and returns no block.                       *)
C9_Original ==
    DualRequested => error = "NotImplementedError" /\ block = None

(* C9: with dual_cross_attention = True, construction raises the           *)
(* unimplemented-feature error exactly for the cross-attention variants    *)
(* (factory given a cross-attention dimension, or the Mid constructor)     *)
(* with at least one layer; the plain variants and every variant with      *)
(* layer count 0 are built with the flag ignored, and a cross-attention    *)
(* tag without a dimension raises the configuration error first.           *)
C9_DualCrossAttention ==
    DualRequested =>
        LET crossAttn == req.op = "UNetMidBlock3DCrossAttn"
                         \/ req.args.tag \in CrossAttnTags
        IN IF crossAttn /\ req.args.cross_attention_dim = None
           THEN error = "ValueError" /\ block = None
           ELSE IF crossAttn /\ req.args.num_layers >= 1
           THEN error = "NotImplementedError" /\ block = None
           ELSE error = "none" /\ block # None

C9_Witness ==
    /\ DualRequested
    /\ req.op = "get_up_block"
    /\ req.args.tag = <<"CrossAttnUpBlock3D">>
    /\ req.args.num_layers = 1
    /\ error = "NotImplementedError"

(* a forward call of a Down or Up block in training mode with the          *)
(* gradient-recomputation flag set                                         *)
RecomputeCall ==
    /\ req.op \in {"down_forward", "up_forward"}
    /\ block.training
    /\ block.gradient_checkpointing

SubOperators == {"resnet", "attn", "motion", "downsample", "upsample"}

(* C10 as stated: for every layer count such a call raises the             *)
(* unimplemented-feature error before any sub-operator is applied and      *)
(* returns nothing.                                                        *)
C10_Original ==
    RecomputeCall =>
        /\ pc \notin {"return", "done"}
        /\ \A j \in 1..Len(calls) : calls[j].op \notin SubOperators
        /\ pc = "raised" => error = "NotImplementedError"

(* C10: for layer count >= 1 such a call applies no spatial operator,      *)
(* cross-attention, motion module or resampler and returns nothing: it     *)
(* stops in the first layer, with the unimplemented-feature error unless   *)
(* the pop or the concatenation that an Up block performs before the       *)
(* check has already failed (empty skip sequence, mismatching entry).      *)
C10_RecomputeRefused ==
    (RecomputeCall /\ config.num_layers >= 1) =>
        /\ pc \in {"loop", "raised"}
        /\ i = 1
        /\ \A j \in 1..Len(calls) : calls[j].op \notin SubOperators
        /\ pc = "raised" =>
            \/ error = "NotImplementedError"
            \/ /\ req.op = "up_forward"
               /\ error = "IndexError"
               /\ req.args.res_hidden_states_tuple = << >>
            \/ /\ req.op = "up_forward"
               /\ error = "RuntimeError"
               /\ calls[Len(calls)].op = "cat"
               /\ calls[Len(calls)].out = None

C10_Witness ==
    /\ RecomputeCall
    /\ req.op = "up_forward"
    /\ block.kind = "CrossAttnUpBlock3D"
    /\ config.num_layers = 2
    /\ pc = "raised"
    /\ error = "NotImplementedError"
    /\ Len(calls) = 1
    /\ calls[1].op = "cat"

----------------------------------------------------------------------------
(* Forward passes under adapter scales: the controller sets, changes and   *)
(* removes the two scale attributes between calls, and the caller passes,  *)
(* omits or passes None for each of the two kwargs dicts                   *)

ScaleLayers == 1             \* num_layers of the blocks built here

ScaleValues == {Absent, None, Num(0), Num(2)}

KwargsInputs == {Omitted, None, Dict(EmptyDict), Dict(DictSet(EmptyDict, "other", 1))}

CrossAttnKinds == {"CrossAttnDownBlock3D", "UNetMidBlock3DCrossAttn",
                   "CrossAttnUpBlock3D"}

ScaleBuildArgs(names) ==
    {[tag |-> <<n>>, num_layers |-> l,
      in_channels |-> 64, out_channels |-> 128, prev_output_channel |-> 256,
      add_sample |-> FALSE, cross_attention_dim |-> Num(CrossAttentionDim),
      dual_cross_attention |-> FALSE, use_motion_module |-> TRUE,
      motion_module_type |-> "Vanilla"] :
        n \in names, l \in 1..ScaleLayers}

ScaleMidArgs ==
    [num_layers : 1..ScaleLayers, in_channels : {64},
     cross_attention_dim : {Num(CrossAttentionDim)},
     dual_cross_attention : {FALSE}, use_motion_module : {TRUE},
     motion_module_type : {"Vanilla"}]

ScaleDownArgs(cross, motion) ==
    [hidden_states : {Input(config.in_channels, Height)},
     temb : {Temb},
     cross_attention_kwargs : cross,
     motion_cross_attention_kwargs : motion]

ScaleMidForwardArgs(cross, motion) ==
    [hidden_states : {Input(config.in_channels, Height)},
     temb : {Temb},
     cross_attention_kwargs : cross,
     motion_cross_attention_kwargs : motion]

ScaleUpArgs(cross, motion) ==
    [hidden_states : {Input(config.prev_output_channel, Height)},
     res_hidden_states_tuple : {CallerSkip(config, config.num_layers)},
     temb : {Temb},
     upsample_size : {None},
     cross_attention_kwargs : cross,
     motion_cross_attention_kwargs : motion]

(* the three cross-attention variants under both scales *)
NextScale ==
    \/ CanConstruct
          /\ \E a \in ScaleBuildArgs({"CrossAttnDownBlock3D"}) : GetDownBlock(a)
    \/ CanConstruct
          /\ \E a \in ScaleBuildArgs({"CrossAttnUpBlock3D"}) : GetUpBlock(a)
    \/ CanConstruct /\ \E a \in ScaleMidArgs : MidBlockInit(a)
    \/ \E v \in ScaleValues : SetLoraScale(v)
    \/ \E v \in ScaleValues : SetMotionLoraScale(v)
    \/ pc = "idle" /\ block.kind \in DownKinds
          /\ \E a \in ScaleDownArgs(KwargsInputs, KwargsInputs) : DownForward(a)
    \/ DownLayer
    \/ Resnet
    \/ Attn
    \/ Motion
    \/ DownAppend
    \/ DownReturn
    \/ pc = "idle" /\ block.kind = "UNetMidBlock3DCrossAttn"
          /\ \E a \in ScaleMidForwardArgs(KwargsInputs, KwargsInputs) : MidForward(a)
    \/ MidResnet
    \/ MidReturn
    \/ pc = "idle" /\ block.kind \in UpKinds
          /\ \E a \in ScaleUpArgs(KwargsInputs, KwargsInputs) : UpForward(a)
    \/ UpLayer
    \/ UpReturn
    \/ Collect
    \/ Drop

SpecScale == Init /\ [][NextScale]_vars

(* the five variants under the motion scale alone *)
NextMotionScale ==
    \/ CanConstruct /\ \E a \in ScaleBuildArgs(DownKinds) : GetDownBlock(a)
    \/ CanConstruct /\ \E a \in ScaleBuildArgs(UpKinds) : GetUpBlock(a)
    \/ CanConstruct /\ \E a \in ScaleMidArgs : MidBlockInit(a)
    \/ \E v \in ScaleValues : SetMotionLoraScale(v)
    \/ pc = "idle" /\ block.kind \in DownKinds
          /\ \E a \in ScaleDownArgs({Omitted}, KwargsInputs) : DownForward(a)
    \/ DownLayer
    \/ Resnet
    \/ Attn
    \/ Motion
    \/ DownAppend
    \/ DownReturn
    \/ pc = "idle" /\ block.kind = "UNetMidBlock3DCrossAttn"
          /\ \E a \in ScaleMidForwardArgs({Omitted}, KwargsInputs) : MidForward(a)
    \/ MidResnet
    \/ MidReturn
    \/ pc = "idle" /\ block.kind \in UpKinds
          /\ \E a \in ScaleUpArgs({Omitted}, KwargsInputs) : UpForward(a)
    \/ UpLayer
    \/ UpReturn
    \/ Collect
    \/ Drop

SpecMotionScale == Init /\ [][NextMotionScale]_vars

----------------------------------------------------------------------------
(* Forward passes of blocks built without motion modules, with identity    *)
(* motion modules and with the default ones; the caller keeps outcomes     *)
(* and compares them                                                       *)

BypassLayers == 2            \* num_layers ranges over 1..BypassLayers here

MotionChoices == {<<FALSE, "Vanilla">>, <<TRUE, "Identity">>, <<TRUE, "Vanilla">>}

BypassBuildArgs(names) ==
    {[tag |-> <<n>>, num_layers |-> l,
      in_channels |-> 64, out_channels |-> 128, prev_output_channel |-> 256,
      add_sample |-> TRUE, cross_attention_dim |-> Num(CrossAttentionDim),
      dual_cross_attention |-> FALSE, use_motion_module |-> m[1],
      motion_module_type |-> m[2]] :
        n \in names, l \in 1..BypassLayers, m \in MotionChoices}

BypassMidArgs ==
    {[num_layers |-> l, in_channels |-> 64,
      cross_attention_dim |-> Num(CrossAttentionDim),
      dual_cross_attention |-> FALSE, use_motion_module |-> m[1],
      motion_module_type |-> m[2]] :
        l \in 0..BypassLayers, m \in MotionChoices}

NextBypass ==
    \/ CanConstruct /\ \E a \in BypassBuildArgs(DownKinds) : GetDownBlock(a)
    \/ CanConstruct /\ \E a \in BypassBuildArgs(UpKinds) : GetUpBlock(a)
    \/ CanConstruct /\ \E a \in BypassMidArgs : MidBlockInit(a)
    \/ pc = "idle" /\ block.kind \in DownKinds
          /\ \E a \in ScaleDownArgs({Omitted}, {Omitted}) : DownForward(a)
    \/ DownLayer
    \/ Resnet
    \/ Attn
    \/ Motion
    \/ DownAppend
    \/ Downsample
    \/ DownReturn
    \/ pc = "idle" /\ block.kind = "UNetMidBlock3DCrossAttn"
          /\ \E a \in ScaleMidForwardArgs({Omitted}, {Omitted}) : MidForward(a)
    \/ MidResnet
    \/ MidReturn
    \/ pc = "idle" /\ block.kind \in UpKinds
          /\ \E a \in ScaleUpArgs({Omitted}, {Omitted}) : UpForward(a)
    \/ UpLayer
    \/ Upsample
    \/ UpReturn
    \/ Keep
    \/ Collect
    \/ Drop

SpecBypass == Init /\ [][NextBypass]_vars

(* the same construction arguments with identity motion modules *)
IdentityTwin(cfg) ==
    [cfg EXCEPT !.use_motion_module = TRUE, !.motion_module_type = "Identity"]

(* the call that ended and the kept one were made with the same arguments *)
(* on two blocks, cfg1 without motion modules and cfg2 its identity twin  *)
BypassPair(cfg1, cfg2) ==
    /\ ~cfg1.use_motion_module
    /\ cfg2 = IdentityTwin(cfg1)

(* C15: a block built with use_motion_module falsy has None in every      *)
(* motion slot, its forward pass calls no motion module, and its outcome  *)
(* is that of the same block built with identity motion modules on the    *)
(* same input.                                                            *)
C15_MotionBypass ==
    /\ block # None /\ ~config.use_motion_module =>
          \A k \in DOMAIN block.motion_modules : block.motion_modules[k] = None
    /\ InForward /\ ~config.use_motion_module => CallsOf("motion") = {}
    /\ InForward /\ pc \in {"done", "raised"}
          /\ kept.op = req.op /\ kept.args = req.args
          /\ (BypassPair(config, kept.config) \/ BypassPair(kept.config, config)) =>
          /\ result = kept.result
          /\ error = kept.error

(* a forward call of a block without motion modules returned, the kept    *)
(* outcome being that of its identity twin on the same input              *)
C15_Witness ==
    /\ InForward
    /\ pc = "done"
    /\ kept.op = req.op
    /\ kept.args = req.args
    /\ BypassPair(config, kept.config)
    /\ config.num_layers >= 2
    /\ result # None

----------------------------------------------------------------------------
(* Properties of the adapter scale injection *)

(* the scales as forward reads them *)
SpatialScale == GetAttr(block.lora_scale)
MotionScale == GetAttr(block.motion_lora_scale)

(* the defaults the signatures declare: {} or None *)
DeclaredCross(kind) ==
    IF kind = "CrossAttnDownBlock3D" THEN Dict(EmptyDict) ELSE None
DeclaredMotion(kind) ==
    IF kind = "UNetMidBlock3DCrossAttn" THEN None ELSE Dict(EmptyDict)

(* what the caller passed for a kwargs parameter on this call: its dict,  *)
(* None, or the declared default when it passed nothing                    *)
PassedCross ==
    IF req.args.cross_attention_kwargs = Omitted
    THEN DeclaredCross(block.kind) ELSE req.args.cross_attention_kwargs
PassedMotion ==
    IF req.args.motion_cross_attention_kwargs = Omitted
    THEN DeclaredMotion(block.kind) ELSE req.args.motion_cross_attention_kwargs

HasScale(arg, v) ==
    /\ arg.kind = "dict"
    /\ "scale" \in DOMAIN arg.items
    /\ arg.items["scale"] = v

(* C11: when a scale attribute is absent, every cross-attention           *)
(* (respectively motion-module) call of the forward pass receives exactly *)
(* what the caller passed for it on this call, the empty or None default  *)
(* when the caller passed nothing, whatever forward calls came before.    *)
C11_Original ==
    InForward =>
        /\ SpatialScale = None =>
              \A j \in CallsOf("attn") : calls[j].arg = PassedCross
        /\ MotionScale = None =>
              \A j \in CallsOf("motion") : calls[j].arg = PassedMotion

(* C12: in the three cross-attention variants, when the spatial scale is  *)
(* present the call does not fail because of it and every                 *)
(* cross-attention call receives a configuration whose scale is the       *)
(* attribute's value, whatever the caller passed.                         *)
C12_Original ==
    InForward /\ block.kind \in CrossAttnKinds /\ SpatialScale # None =>
        /\ error # "TypeError"
        /\ \A j \in CallsOf("attn") : HasScale(calls[j].arg, SpatialScale.value)

(* C13: in all five variants, when the motion scale is present every      *)
(* motion-module call receives the caller's motion configuration with its *)
(* other keys kept and scale set to the attribute's value, and exactly    *)
(* {scale: value} when the caller passed none.                            *)
C13_MotionMerge ==
    InForward /\ MotionScale # None =>
        \A j \in CallsOf("motion") :
            LET passed == req.args.motion_cross_attention_kwargs
                base == IF passed.kind = "dict" THEN passed.items ELSE EmptyDict
            IN calls[j].arg = Dict(DictSet(base, "scale", MotionScale.value))

(* a forward call that returned after motion calls under a motion scale,  *)
(* the caller's motion configuration holding another key                  *)
C13_Witness ==
    /\ InForward
    /\ pc = "done"
    /\ MotionScale = Num(2)
    /\ req.args.motion_cross_attention_kwargs = Dict(DictSet(EmptyDict, "other", 1))
    /\ CallsOf("motion") # {}

(* C14: with only the spatial scale set the motion-module calls receive   *)
(* what the caller passed on this call, and with only the motion scale    *)
(* set the cross-attention calls receive what the caller passed.          *)
C14_Original ==
    InForward /\ block.kind \in CrossAttnKinds =>
        /\ SpatialScale # None /\ MotionScale = None =>
              \A j \in CallsOf("motion") : calls[j].arg = PassedMotion
        /\ MotionScale # None /\ SpatialScale = None =>
              \A j \in CallsOf("attn") : calls[j].arg = PassedCross

----------------------------------------------------------------------------
(* The reshape protocol on values.  A tensor of values is its shape and    *)
(* the function from its (0-based) index tuples to its elements; the       *)
(* caller's tensor holds at every index an element named after that index, *)
(* so that two tensors are equal only when every element is in its place.  *)

ReshapeMaxOuter == 3         \* batch and frame counts range over 1..3
ReshapeMaxInner == 2         \* channels, height, width range over 1..2

Indices(shape) ==
    IF Len(shape) = 5
    THEN (0..(shape[1] - 1)) \X (0..(shape[2] - 1)) \X (0..(shape[3] - 1))
            \X (0..(shape[4] - 1)) \X (0..(shape[5] - 1))
    ELSE (0..(shape[1] - 1)) \X (0..(shape[2] - 1)) \X (0..(shape[3] - 1))
            \X (0..(shape[4] - 1))

Values(shape, data) == [kind |-> "Values", shape |-> shape, data |-> data]

VideoLatent(shape) == Values(shape, [ix \in Indices(shape) |-> ix])

ReshapeShapes ==
    (1..ReshapeMaxOuter) \X (1..ReshapeMaxInner) \X (1..ReshapeMaxOuter)
        \X (1..ReshapeMaxInner) \X (1..ReshapeMaxInner)

(* mutant: the frame axis is the slow one of the merged axis *)
FlattenValues_frameMajor(x) ==
    LET shape == <<x.shape[1] * x.shape[3], x.shape[2], x.shape[4], x.shape[5]>>
    IN Values(shape,
              [ix \in Indices(shape) |->
                  x.data[<<ix[1] % x.shape[1], ix[2], ix[1] \div x.shape[1],
                           ix[3], ix[4]>>]])

(* rearrange(x, "b c f h w -> (b f) c h w"): the element at (b, c, f, h, w) *)
(* goes to (b * F + f, c, h, w)                                             *)
FlattenValues(x) ==
    LET shape == <<x.shape[1] * x.shape[3], x.shape[2], x.shape[4], x.shape[5]>>
    IN Values(shape,
              [ix \in Indices(shape) |->
                  x.data[<<ix[1] \div x.shape[3], ix[2], ix[1] % x.shape[3],
                           ix[3], ix[4]>>]])

(* rearrange(x, "(b f) c h w -> b c f h w", f=f): the element at           *)
(* (b * f + k, c, h, w) goes to (b, c, k, h, w)                            *)
UnflattenValues(x, f) ==
    LET shape == <<x.shape[1] \div f, x.shape[2], f, x.shape[3], x.shape[4]>>
    IN Values(shape,
              [ix \in Indices(shape) |->
                  x.data[<<ix[1] * f + ix[3], ix[2], ix[4], ix[5]>>]])

(* video_length = hidden_states.shape[2], read before the first flatten *)
InitReshape ==
    /\ \E shape \in ReshapeShapes :
          /\ req = [op |-> "rearrange", args |-> VideoLatent(shape)]
          /\ hidden_states = VideoLatent(shape)
          /\ video_length = shape[3]
    /\ pc = "5d"
    /\ block = None
    /\ config = None
    /\ error = "none"
    /\ i = 0
    /\ temb_repeated = NoTensor
    /\ output_states = << >>
    /\ res_hidden_states_tuple = << >>
    /\ calls = << >>
    /\ cross_attention_kwargs = "None"
    /\ motion_cross_attention_kwargs = "None"
    /\ heap = [o \in DefaultObjects \cup CallerObjects \cup LocalObjects |-> EmptyDict]
    /\ result = None
    /\ skip_cache = NoSkip
    /\ kept = NoKept
    /\ train = None

RearrangeFlatten ==
    /\ pc = "5d"
    /\ hidden_states' = FlattenValues(hidden_states)
    /\ pc' = "4d"
    /\ UNCHANGED <<req, block, error, i, temb_repeated, video_length,
                   output_states, res_hidden_states_tuple, calls,
                   cross_attention_kwargs, motion_cross_attention_kwargs, heap,
                   result, skip_cache, config, kept, train>>

RearrangeUnflatten ==
    /\ pc = "4d"
    /\ hidden_states' = UnflattenValues(hidden_states, video_length)
    /\ pc' = "5d again"
    /\ UNCHANGED <<req, block, error, i, temb_repeated, video_length,
                   output_states, res_hidden_states_tuple, calls,
                   cross_attention_kwargs, motion_cross_attention_kwargs, heap,
                   result, skip_cache, config, kept, train>>

NextReshape ==
    \/ RearrangeFlatten
    \/ RearrangeUnflatten

SpecReshape == InitReshape /\ [][NextReshape]_vars

(* C16: flatten puts frame f of batch element b at flat index b * F + f,  *)
(* and unflattening at the same frame count F gives back a tensor of the  *)
(* original shape with the original element at every index.               *)
C16_RoundTrip ==
    LET x == req.args
        F == video_length
    IN /\ pc = "4d" =>
            /\ hidden_states.shape = <<x.shape[1] * F, x.shape[2], x.shape[4], x.shape[5]>>
            /\ \A ix \in Indices(x.shape) :
                  hidden_states.data[<<ix[1] * F + ix[3], ix[2], ix[4], ix[5]>>]
                      = x.data[ix]
       /\ pc = "5d again" =>
            /\ hidden_states.shape = x.shape
            /\ \A ix \in Indices(x.shape) : hidden_states.data[ix] = x.data[ix]

(* the round trip of a tensor with several batch elements and frames *)
C16_Witness ==
    /\ pc = "5d again"
    /\ req.args.shape[1] >= 2
    /\ req.args.shape[3] >= 2
    /\ req.args.shape[2] >= 2

----------------------------------------------------------------------------
(* The worked example of a Down block: in_channels 4, out_channels 8, an   *)
(* input of shape (1, 4, 8, 32, 32) and a time embedding of shape (1, 16)  *)

ExampleBuildArgs ==
    {[tag |-> <<n>>, num_layers |-> l,
      in_channels |-> 4, out_channels |-> 8, prev_output_channel |-> 8,
      add_sample |-> s, cross_attention_dim |-> Num(CrossAttentionDim),
      dual_cross_attention |-> FALSE, use_motion_module |-> m,
      motion_module_type |-> "Vanilla"] :
        n \in DownKinds, l \in LayerCounts, s \in BOOLEAN, m \in BOOLEAN}

ExampleDownArgs ==
    [hidden_states : {Tensor(<<1, 4, 8, 32, 32>>, <<Op("input", 0)>>)},
     temb : {Tensor(<<1, 16>>, <<Op("temb", 0)>>)},
     cross_attention_kwargs : {Omitted},
     motion_cross_attention_kwargs : {Omitted}]

NextExample ==
    \/ CanConstruct /\ \E a \in ExampleBuildArgs : GetDownBlock(a)
    \/ pc = "idle" /\ block.kind \in DownKinds
          /\ \E a \in ExampleDownArgs : DownForward(a)
    \/ DownLayer
    \/ Resnet
    \/ Attn
    \/ Motion
    \/ DownAppend
    \/ Downsample
    \/ DownReturn
    \/ Collect
    \/ Drop

SpecExample == Init /\ [][NextExample]_vars

(* the forward call of the example's block is over *)
ExampleCall ==
    /\ req.op = "down_forward"
    /\ pc \in {"done", "raised"}
    /\ config.num_layers = 2
    /\ config.add_sample

(* C17: the Down block with in_channels 4, out_channels 8, two layers and *)
(* the resampler, given (1, 4, 8, 32, 32) and a (1, 16) time embedding,   *)
(* returns a final output of shape (1, 8, 8, 16, 16) and an output        *)
(* sequence of three entries of shapes (1, 8, 8, 32, 32),                 *)
(* (1, 8, 8, 32, 32), (1, 8, 8, 16, 16).                                  *)
C17_ExampleShapes ==
    ExampleCall =>
        /\ pc = "done"
        /\ result.hidden_states.shape = <<1, 8, 8, 16, 16>>
        /\ Len(result.output_states) = 3
        /\ result.output_states[1].shape = <<1, 8, 8, 32, 32>>
        /\ result.output_states[2].shape = <<1, 8, 8, 32, 32>>
        /\ result.output_states[3].shape = <<1, 8, 8, 16, 16>>

(* the example's call returned, for the variant with cross-attention and  *)
(* motion modules                                                         *)
C17_Witness ==
    /\ ExampleCall
    /\ pc = "done"
    /\ block.kind = "CrossAttnDownBlock3D"
    /\ config.use_motion_module

----------------------------------------------------------------------------
(* Skip sequences shorter than the Up block's layers *)

(* an Up forward call given fewer skip entries than the block has layers, *)
(* the recompute path not being taken                                     *)
ShortSkip ==
    /\ req.op = "up_forward"
    /\ Len(req.args.res_hidden_states_tuple) < ZipLen(block)
    /\ ~CheckpointRaises(block)

(* C18 as stated: the call given too few skip entries ends in a           *)
(* tensor-shape failure of the concatenation or of a reshape, and returns *)
(* nothing.                                                               *)
C18_Original ==
    ShortSkip =>
        /\ pc # "done"
        /\ result = None
        /\ pc = "raised" => error = "RuntimeError"

(* C18: the call given n entries, fewer than its layers, never returns    *)
(* and nothing of it is caught: once the n entries are consumed the next  *)
(* layer raises IndexError from the indexing of the empty tuple, before   *)
(* any concatenation; a tensor-shape failure occurs only in an earlier    *)
(* layer, from an entry or input of the wrong shape.                      *)
C18_ShortSkipFails ==
    ShortSkip =>
        LET n == Len(req.args.res_hidden_states_tuple) IN
        /\ pc \notin {"done", "return"}
        /\ result = None
        /\ i <= n + 1
        /\ pc = "raised" /\ i = n + 1 =>
              /\ error = "IndexError"
              /\ res_hidden_states_tuple = << >>
              /\ \A j \in 1..Len(calls) : calls[j].layer # i
        /\ pc = "raised" /\ i <= n => error = "RuntimeError"

(* the call consumed its entries in earlier layers and failed on the      *)
(* empty sequence                                                         *)
C18_Witness ==
    /\ ShortSkip
    /\ pc = "raised"
    /\ error = "IndexError"
    /\ Len(req.args.res_hidden_states_tuple) >= 1

----------------------------------------------------------------------------
(* The namespace prefix of the type tags *)

(* the outcome of the factory call that ended *)
Outcome == [raised |-> error, value |-> block]

(* the arguments of the call with the tag's first token taken off *)
Unprefixed(a) == [a EXCEPT !.tag = SubSeq(a.tag, 2, Len(a.tag))]

OnePrefix(t) == Len(t) >= 2 /\ t[1] = "UNetRes" /\ t[2] # "UNetRes"
TwoPrefixes(t) == Len(t) >= 3 /\ t[1] = "UNetRes" /\ t[2] = "UNetRes"

(* C19: for every tag t that is a bare name and every hyperparameter set, *)
(* the factory call with "UNetRes" + t has the outcome of the call with   *)
(* t, the same block with the same wiring or the same error, for          *)
(* get_down_block and for get_up_block; a second leading prefix is not    *)
(* stripped, so a tag with two of them is rejected as unknown.            *)
C19_PrefixStripped ==
    /\ Built("get_down_block") /\ OnePrefix(req.args.tag) =>
          Outcome = get_down_block(Unprefixed(req.args))
    /\ Built("get_up_block") /\ OnePrefix(req.args.tag) =>
          Outcome = get_up_block(Unprefixed(req.args))
    /\ (Built("get_down_block") \/ Built("get_up_block"))
          /\ TwoPrefixes(req.args.tag) =>
          Outcome = Raise("ValueError")

(* a factory call with a prefixed tag built a block *)
C19_Witness ==
    /\ Built("get_up_block")
    /\ req.args.tag = <<"UNetRes", "CrossAttnUpBlock3D">>
    /\ block # None
    /\ block.kind = "CrossAttnUpBlock3D"

----------------------------------------------------------------------------
(* The reshape protocol in the forward passes *)

InputBatch == req.args.hidden_states.shape[1]
InputFrames == req.args.hidden_states.shape[3]

(* 5D form with the frame count of the input *)
FiveD(x) == Len(x.shape) = 5 /\ x.shape[3] = InputFrames

(* the invocation c of a 2D operator took the 4D form made by one flatten *)
(* and, when it returned, its output went through one unflatten at the    *)
(* frame count of the input                                               *)
Sandwiched(c) ==
    LET n == Len(c.x.hist) IN
    /\ Len(c.x.shape) = 4
    /\ c.x.shape[1] = InputBatch * InputFrames
    /\ n >= 2
    /\ c.x.hist[n] = Op("flatten", 0)
    /\ c.x.hist[n - 1].op # "flatten"
    /\ c.out # None =>
          /\ FiveD(c.out)
          /\ c.out.hist = c.x.hist \o <<Op(c.op, c.layer), Op("unflatten", InputFrames)>>

(* C21: at every point of every block's forward call, the spatial,        *)
(* cross-attention and resampling operators were applied to the 4D form   *)
(* only, each between exactly one flatten and one unflatten at the        *)
(* input's frame count; the motion modules were applied to the 5D form    *)
(* only; every entry of the output sequence and the value returned are in *)
(* 5D form with the input's frame count.                                  *)
C21_Sandwich ==
    InForward =>
        /\ \A j \in 1..Len(calls) :
              /\ calls[j].op \in {"resnet", "attn", "downsample", "upsample"} =>
                    Sandwiched(calls[j])
              /\ calls[j].op = "motion" =>
                    /\ FiveD(calls[j].x)
                    /\ calls[j].out # None => FiveD(calls[j].out)
        /\ \A k \in 1..Len(output_states) : FiveD(output_states[k])
        /\ pc = "done" /\ req.op = "down_forward" =>
              /\ FiveD(result.hidden_states)
              /\ \A k \in 1..Len(result.output_states) : FiveD(result.output_states[k])
        /\ pc = "done" /\ req.op # "down_forward" => FiveD(result)

(* a cross-attention Down block with motion modules and a resampler       *)
(* returned after two layers                                              *)
C21_Witness ==
    /\ DownDone
    /\ block.kind = "CrossAttnDownBlock3D"
    /\ config.num_layers = 2
    /\ CallsOf("motion") # {}
    /\ CallsOf("downsample") # {}
    /\ Len(result.output_states) = 3

----------------------------------------------------------------------------
(* Order of the sub-operators in the forward passes *)

IsPrefix(s, t) == Len(s) <= Len(t) /\ s = SubSeq(t, 1, Len(s))

(* the call log reduced to which operator ran in which layer *)
RECURSIVE OpsOf(_)
OpsOf(log) ==
    IF log = << >> THEN << >>
    ELSE <<Op(log[1].op, log[1].layer)>> \o OpsOf(Tail(log))

(* what a Down layer runs: spatial operator, cross-attention in the       *)
(* cross-attention variant, motion module when the slot is not None       *)
DownLayerOps(blk, k) ==
    <<Op("resnet", k)>>
        \o (IF blk.kind = "CrossAttnDownBlock3D" THEN <<Op("attn", k)>> ELSE << >>)
        \o (IF blk.motion_modules[k] # None THEN <<Op("motion", k)>> ELSE << >>)

RECURSIVE DownOpsUpTo(_, _)
DownOpsUpTo(blk, k) ==
    IF k = 0 THEN << >> ELSE DownOpsUpTo(blk, k - 1) \o DownLayerOps(blk, k)

DownOps(blk) ==
    DownOpsUpTo(blk, Len(blk.resnets))
        \o (IF blk.samplers # None THEN <<Op("downsample", 0)>> ELSE << >>)

(* C22: in a Down forward call each layer runs spatial operator, then     *)
(* cross-attention (cross-attention variant), then motion module (slot    *)
(* not None), then the append; layers run in index order, layer k+1       *)
(* starts only after the append of layer k, and the resampler runs only   *)
(* after the last layer.                                                  *)
C22_DownOrder ==
    req.op = "down_forward" =>
        LET L == Len(block.resnets)
            ops == OpsOf(calls)
        IN /\ IsPrefix(ops, DownOps(block))
           /\ pc = "done" => ops = DownOps(block)
           /\ \A k \in 1..L :
                 /\ Len(output_states) >= k =>
                       IsPrefix(DownOpsUpTo(block, k), ops)
                 /\ Len(ops) > Len(DownOpsUpTo(block, k)) =>
                       Len(output_states) >= k

(* a cross-attention Down block with motion modules and a resampler       *)
(* returned after three layers                                            *)
C22_Witness ==
    /\ DownDone
    /\ block.kind = "CrossAttnDownBlock3D"
    /\ Len(block.resnets) = 3
    /\ block.motion_modules[1] # None
    /\ block.samplers # None
    /\ Len(calls) = 10

(* what a Mid layer runs: cross-attention, motion module when the slot is *)
(* not None, spatial operator                                             *)
MidLayerOps(blk, k) ==
    <<Op("attn", k)>>
        \o (IF blk.motion_modules[k] # None THEN <<Op("motion", k)>> ELSE << >>)
        \o <<Op("resnet", k)>>

RECURSIVE MidOpsUpTo(_, _)
MidOpsUpTo(blk, k) ==
    IF k = 0 THEN <<Op("resnet", 0)>>
    ELSE MidOpsUpTo(blk, k - 1) \o MidLayerOps(blk, k)

(* C23: the Mid block built with layer_count L owns L+1 spatial           *)
(* operators, L cross-attention operators and L motion-module slots and   *)
(* no resampler; its forward call applies spatial operator 0, then per    *)
(* layer cross-attention, motion module (when not None), spatial          *)
(* operator, and returns the final VideoLatent alone: L+1 spatial and L   *)
(* cross-attention applications per call.                                 *)
C23_MidStructure ==
    block # None /\ block.kind = "UNetMidBlock3DCrossAttn" =>
        LET L == config.num_layers
            ops == OpsOf(calls)
        IN /\ Len(block.resnets) = L + 1
           /\ Len(block.attentions) = L
           /\ Len(block.motion_modules) = L
           /\ block.samplers = None
           /\ req.op = "mid_forward" =>
                 /\ IsPrefix(ops, MidOpsUpTo(block, L))
                 /\ CallsOf("downsample") \cup CallsOf("upsample") = {}
                 /\ output_states = << >>
                 /\ pc = "done" =>
                       /\ ops = MidOpsUpTo(block, L)
                       /\ Cardinality(CallsOf("resnet")) = L + 1
                       /\ Cardinality(CallsOf("attn")) = L
                       /\ result = hidden_states
                       /\ result.kind = "Tensor"

(* a Mid block with two layers and motion modules returned *)
C23_Witness ==
    /\ pc = "done"
    /\ req.op = "mid_forward"
    /\ config.num_layers = 2
    /\ block.motion_modules[1] # None
    /\ Len(calls) = 7

(* what an Up layer runs: concatenation with the popped skip entry,       *)
(* spatial operator, cross-attention in the cross-attention variant,      *)
(* motion module when the slot is not None                                *)
UpLayerOps(blk, k) ==
    <<Op("cat", k), Op("resnet", k)>>
        \o (IF blk.kind = "CrossAttnUpBlock3D" THEN <<Op("attn", k)>> ELSE << >>)
        \o (IF blk.motion_modules[k] # None THEN <<Op("motion", k)>> ELSE << >>)

RECURSIVE UpOpsUpTo(_, _)
UpOpsUpTo(blk, k) ==
    IF k = 0 THEN << >> ELSE UpOpsUpTo(blk, k - 1) \o UpLayerOps(blk, k)

UpOps(blk) ==
    UpOpsUpTo(blk, Len(blk.resnets))
        \o (IF blk.samplers # None THEN <<Op("upsample", 0)>> ELSE << >>)

(* C24: in an Up forward call every layer first concatenates the current  *)
(* VideoLatent with one popped skip entry along the channel axis, so that *)
(* its spatial operator sees the sum of the two channel counts, and then  *)
(* runs spatial operator, cross-attention (cross-attention variant) and   *)
(* motion module (when not None); the upsampler, when present, is applied *)
(* once after all layers with the caller's target size; the call returns  *)
(* the final VideoLatent alone.                                           *)
C24_UpOrder ==
    req.op = "up_forward" =>
        LET ops == OpsOf(calls) IN
        /\ IsPrefix(ops, UpOps(block))
        /\ \A j \in CallsOf("cat") :
              /\ calls[j].arg \in
                    {req.args.res_hidden_states_tuple[p] :
                        p \in 1..Len(req.args.res_hidden_states_tuple)}
              /\ calls[j].out # None =>
                    /\ calls[j].out.shape =
                          [calls[j].x.shape EXCEPT ![2] = @ + calls[j].arg.shape[2]]
                    /\ j < Len(calls) =>
                          /\ calls[j + 1].op = "resnet"
                          /\ calls[j + 1].x.shape[2]
                                = calls[j].x.shape[2] + calls[j].arg.shape[2]
        /\ \A j \in CallsOf("upsample") : calls[j].arg = req.args.upsample_size
        /\ Cardinality(CallsOf("upsample")) <= 1
        /\ pc = "done" =>
              /\ ops = UpOps(block)
              /\ result = hidden_states
              /\ result.kind = "Tensor"
              /\ output_states = << >>

(* a cross-attention Up block with motion modules and an upsampler        *)
(* returned after three layers, the caller having given a target size     *)
C24_Witness ==
    /\ UpDone
    /\ block.kind = "CrossAttnUpBlock3D"
    /\ Len(block.resnets) = 3
    /\ block.motion_modules[1] # None
    /\ CallsOf("upsample") # {}
    /\ req.args.upsample_size # None

----------------------------------------------------------------------------
(* Channel counts of the Down blocks *)

(* C25: for both Down variants and every layer_count L >= 1, the spatial  *)
(* operator of layer 0 accepts the block's in_channels and every later    *)
(* one accepts out_channels; every layer outputs out_channels, every      *)
(* cross-attention operator and motion module is built at out_channels,   *)
(* and the resampler keeps out_channels.                                  *)
C25_DownChannels ==
    Built("get_down_block") /\ block # None /\ config.num_layers >= 1 =>
        /\ Len(block.resnets) = config.num_layers
        /\ block.resnets[1].in_channels = config.in_channels
        /\ \A k \in 2..config.num_layers :
              block.resnets[k].in_channels = config.out_channels
        /\ \A k \in 1..config.num_layers :
              block.resnets[k].out_channels = config.out_channels
        /\ \A k \in DOMAIN block.attentions :
              block.attentions[k].in_channels = config.out_channels
        /\ block.kind = "CrossAttnDownBlock3D" =>
              Len(block.attentions) = config.num_layers
        /\ \A k \in DOMAIN block.motion_modules :
              block.motion_modules[k] # None =>
                  block.motion_modules[k].in_channels = config.out_channels
        /\ block.samplers # None =>
              /\ block.samplers.items[1].channels = config.out_channels
              /\ block.samplers.items[1].out_channels = config.out_channels

(* a cross-attention Down block of three layers, with motion modules and  *)
(* a resampler, built with in_channels different from out_channels        *)
C25_Witness ==
    /\ Built("get_down_block")
    /\ block # None
    /\ block.kind = "CrossAttnDownBlock3D"
    /\ config.num_layers = 3
    /\ config.in_channels # config.out_channels
    /\ config.use_motion_module
    /\ block.samplers # None

----------------------------------------------------------------------------
(* The caller's argument objects *)

(* C26: when a forward call returns, the objects the caller passed are as *)
(* they were: the skip sequence has all its entries in their order, and   *)
(* the cross-attention and motion configurations hold the keys and values *)
(* they held before the call, whatever scale attributes are set.          *)
C26_Original ==
    InForward /\ pc = "done" =>
        /\ req.args.cross_attention_kwargs.kind = "dict" =>
              heap["caller.cross_attention_kwargs"]
                  = req.args.cross_attention_kwargs.items
        /\ req.args.motion_cross_attention_kwargs.kind = "dict" =>
              heap["caller.motion_cross_attention_kwargs"]
                  = req.args.motion_cross_attention_kwargs.items
        /\ req.op = "up_forward" =>
              IsPrefix(res_hidden_states_tuple, req.args.res_hidden_states_tuple)

----------------------------------------------------------------------------
(* train_image_lora.main: the training loop                                *)

TrainMaxBatches == 3
TrainMaxSteps == 4
TrainMaxAccum == 2

(* math.ceil(a / b) for positive integers *)
Ceil(a, b) == (a + b - 1) \div b

(* resume_from: None, or a checkpoint whose 'global_step' entry is s; the *)
(* loop saves checkpoints after the increment of global_step only          *)
Checkpoint(s) == [kind |-> "ckpt", global_step |-> s]

TrainArgs ==
    [len_train_dataloader : 1..TrainMaxBatches,
     max_train_steps : 1..TrainMaxSteps,
     gradient_accumulation_steps : 1..TrainMaxAccum,
     resume_from : {None} \cup {Checkpoint(s) : s \in 1..TrainMaxSteps}]

num_update_steps_per_epoch(a) ==
    Ceil(a.len_train_dataloader, a.gradient_accumulation_steps)

num_train_epochs(a) == Ceil(a.max_train_steps, num_update_steps_per_epoch(a))

(* global_step = 0; first_epoch = 0; then the resume_from branch *)
ResumeState(a) ==
    IF a.resume_from # None
    THEN [global_step |-> a.resume_from.global_step,
          trained_iterations |->
              a.resume_from.global_step % a.len_train_dataloader,
          first_epoch |->
              a.resume_from.global_step \div a.len_train_dataloader]
    ELSE [global_step |-> 0, trained_iterations |-> 0, first_epoch |-> 0]

(* the locals of main when it reaches the epoch loop; epoch and step hold *)
(* the next value their range yields                                      *)
TrainLocals(a) ==
    [args |-> a,
     num_train_epochs |-> num_train_epochs(a),
     global_step |-> ResumeState(a).global_step,
     trained_iterations |-> ResumeState(a).trained_iterations,
     first_epoch |-> ResumeState(a).first_epoch,
     epoch |-> ResumeState(a).first_epoch,
     step |-> 0]

InitTrain ==
    /\ \E a \in TrainArgs : train = TrainLocals(a)
    /\ pc = "epoch_loop"
    /\ req = NoReq
    /\ block = None
    /\ config = None
    /\ error = "none"
    /\ i = 0
    /\ hidden_states = NoTensor
    /\ temb_repeated = NoTensor
    /\ video_length = 0
    /\ output_states = << >>
    /\ res_hidden_states_tuple = << >>
    /\ calls = << >>
    /\ cross_attention_kwargs = "None"
    /\ motion_cross_attention_kwargs = "None"
    /\ heap = [o \in DefaultObjects \cup CallerObjects \cup LocalObjects |-> EmptyDict]
    /\ result = None
    /\ skip_cache = NoSkip
    /\ kept = NoKept

trainFrame == <<req, block, error, i, hidden_states, temb_repeated,
                video_length, output_states, res_hidden_states_tuple, calls,
                cross_attention_kwargs, motion_cross_attention_kwargs, heap,
                result, skip_cache, config, kept>>

(* for epoch in range(first_epoch, num_train_epochs): the body starts the *)
(* step range at trained_iterations                                       *)
EpochLoop ==
    /\ pc = "epoch_loop"
    /\ IF train.epoch < train.num_train_epochs
       THEN /\ train' = [train EXCEPT !.step = train.trained_iterations]
            /\ pc' = "step_loop"
       ELSE /\ pc' = "train_done"
            /\ UNCHANGED train
    /\ UNCHANGED trainFrame

(* for step in range(trained_iterations, len(train_dataloader)): an       *)
(* exhausted range ends the epoch                                         *)
StepLoop ==
    /\ pc = "step_loop"
    /\ IF train.step < train.args.len_train_dataloader
       THEN /\ pc' = "step_body"
            /\ UNCHANGED train
       ELSE /\ train' = [train EXCEPT !.epoch = train.epoch + 1]
            /\ pc' = "epoch_loop"
    /\ UNCHANGED trainFrame

(* the break leaves the step loop: the epoch loop takes its next epoch *)
BreakTo(t) == "epoch_loop"

(* one iteration: optimizer.step(), lr_scheduler.step(), global_step += 1 *)
(* and the check of global_step against max_train_steps                   *)
TrainStep ==
    /\ pc = "step_body"
    /\ LET global_step == train.global_step + 1
       IN  IF global_step >= train.args.max_train_steps
           THEN /\ train' = [train EXCEPT !.global_step = global_step,
                                          !.epoch = train.epoch + 1]
                /\ pc' = BreakTo(train)
           ELSE /\ train' = [train EXCEPT !.global_step = global_step,
                                          !.step = train.step + 1]
                /\ pc' = "step_loop"
    /\ UNCHANGED trainFrame

NextTrain ==
    \/ EpochLoop
    \/ StepLoop
    \/ TrainStep

SpecTrain == InitTrain /\ [][NextTrain]_vars

Resumed == train.args.resume_from # None

(* C27: in a non-resumed run global_step never exceeds max_train_steps   *)
(* and equals max_train_steps when the epoch loop has ended, for every    *)
(* gradient_accumulation_steps >= 1.                                      *)
C27_Original ==
    ~Resumed =>
        /\ train.global_step <= train.args.max_train_steps
        /\ pc = "train_done" =>
              train.global_step = train.args.max_train_steps

(* a run resumed from a checkpoint saved before max_train_steps *)
ResumedEarly ==
    /\ Resumed
    /\ train.args.resume_from.global_step < train.args.max_train_steps

(* C28: a run resumed at global_step s < max_train_steps restarts at      *)
(* epoch s div N with s mod N iterations counted as done, shortens only   *)
(* that first epoch (in every later epoch the iteration about to run is   *)
(* iteration global_step - epoch * N, counted from 0), and ends with      *)
(* global_step equal to max_train_steps.                                  *)
C28_Original ==
    ResumedEarly =>
        /\ train.first_epoch
              = train.args.resume_from.global_step
                    \div train.args.len_train_dataloader
        /\ train.trained_iterations
              = train.args.resume_from.global_step
                    % train.args.len_train_dataloader
        /\ (pc = "step_body" /\ train.epoch > train.first_epoch
                             /\ train.global_step < train.args.max_train_steps) =>
              train.step
                  = train.global_step
                        - train.epoch * train.args.len_train_dataloader
        /\ pc = "train_done" =>
              train.global_step = train.args.max_train_steps

====
